---- MODULE Spec2Model ----
(***************************************************************************)
(* The in-memory alert store of oci-alert-backend/routes/oci.js:           *)
(* the webhook handler POST /oci-alerts (field extraction, normalisation,  *)
(* deduplication, capacity eviction), the two cron callbacks (daily wipe,  *)
(* periodic dedupe-key cleanup) and the manual DELETE /alerts.             *)
(*                                                                         *)
(* Node runs every handler and cron callback to completion on one thread,  *)
(* and none of them awaits between its first read and its last write of    *)
(* the store, so each is one atomic action here.                           *)
(***************************************************************************)
EXTENDS Integers, Sequences, FiniteSets, TLC

(***************************************************************************)
(* Bounds of the model.  MAX_ALERTS (10000), MAX_RAW_WEBHOOKS (50) and the *)
(* six-hour staleness window are scaled down so that eviction, trimming    *)
(* and staleness happen within a few arrivals and clock ticks.             *)
(***************************************************************************)
MaxArrivals == 3
MaxTime == 2
MaxAlertsBound == 2
MaxRawBound == 2
WindowBound == 1

MAX_ALERTS == MaxAlertsBound
MAX_RAW_WEBHOOKS == MaxRawBound
SIX_HOURS == WindowBound

(***************************************************************************)
(* JSON scalars.  A value is a record [t, v] whose tag t is the JavaScript *)
(* type and whose v is the literal, always written as a string.  A field   *)
(* that an object does not have is simply not in the object's DOMAIN.      *)
(***************************************************************************)
Str(s) == [t |-> "str", v |-> s]
Num(s) == [t |-> "num", v |-> s]
Null == [t |-> "null", v |-> ""]
Undefined == [t |-> "undef", v |-> ""]

\* JavaScript truthiness of a scalar, as used by `if (dedupeKey && ...)`.
Truthy(x) ==
  \/ x.t = "str" /\ x.v # ""
  \/ x.t = "num" /\ x.v # "0"

\* String.prototype.toLowerCase and toUpperCase, character by character.
LowerChar(c) ==
  CASE c = "A" -> "a"
    [] c = "B" -> "b"
    [] c = "C" -> "c"
    [] c = "D" -> "d"
    [] c = "E" -> "e"
    [] c = "F" -> "f"
    [] c = "G" -> "g"
    [] c = "H" -> "h"
    [] c = "I" -> "i"
    [] c = "J" -> "j"
    [] c = "K" -> "k"
    [] c = "L" -> "l"
    [] c = "M" -> "m"
    [] c = "N" -> "n"
    [] c = "O" -> "o"
    [] c = "P" -> "p"
    [] c = "Q" -> "q"
    [] c = "R" -> "r"
    [] c = "S" -> "s"
    [] c = "T" -> "t"
    [] c = "U" -> "u"
    [] c = "V" -> "v"
    [] c = "W" -> "w"
    [] c = "X" -> "x"
    [] c = "Y" -> "y"
    [] c = "Z" -> "z"
    [] OTHER -> c

UpperChar(c) ==
  CASE c = "a" -> "A"
    [] c = "b" -> "B"
    [] c = "c" -> "C"
    [] c = "d" -> "D"
    [] c = "e" -> "E"
    [] c = "f" -> "F"
    [] c = "g" -> "G"
    [] c = "h" -> "H"
    [] c = "i" -> "I"
    [] c = "j" -> "J"
    [] c = "k" -> "K"
    [] c = "l" -> "L"
    [] c = "m" -> "M"
    [] c = "n" -> "N"
    [] c = "o" -> "O"
    [] c = "p" -> "P"
    [] c = "q" -> "Q"
    [] c = "r" -> "R"
    [] c = "s" -> "S"
    [] c = "t" -> "T"
    [] c = "u" -> "U"
    [] c = "v" -> "V"
    [] c = "w" -> "W"
    [] c = "x" -> "X"
    [] c = "y" -> "Y"
    [] c = "z" -> "Z"
    [] OTHER -> c

RECURSIVE ToLowerCase(_)
ToLowerCase(s) ==
  IF s = "" THEN ""
  ELSE LowerChar(SubSeq(s, 1, 1)) \o ToLowerCase(SubSeq(s, 2, Len(s)))

RECURSIVE ToUpperCase(_)
ToUpperCase(s) ==
  IF s = "" THEN ""
  ELSE UpperChar(SubSeq(s, 1, 1)) \o ToUpperCase(SubSeq(s, 2, Len(s)))

\* String.prototype.includes: p occurs in s as a substring.
Includes(s, p) ==
  \E i \in 1..(Len(s) - Len(p) + 1) : SubSeq(s, i, i + Len(p) - 1) = p

\* Date.prototype.toISOString of the instant n (one tick of the model clock).
ToISOString(n) == "T" \o ToString(n)

\* new Date(x): a valid instant for an ISO string, an Invalid Date otherwise.
InvalidDate == [valid |-> FALSE, ms |-> 0]
NewDate(x) ==
  IF x.t = "str" /\ \E n \in 0..MaxTime : ToISOString(n) = x.v
  THEN [valid |-> TRUE, ms |-> CHOOSE n \in 0..MaxTime : ToISOString(n) = x.v]
  ELSE InvalidDate

\* a < b on Dates: any comparison with an Invalid Date (NaN) is false.
DateLess(a, b) == a.valid /\ b.valid /\ a.ms < b.ms

(***************************************************************************)
(* extractField: the first candidate name whose value on obj is neither    *)
(* undefined, null nor the empty string; else the default.                 *)
(***************************************************************************)
\* An extractor that takes the empty string for a value.
RECURSIVE extractFieldTakesEmpty(_, _, _)
extractFieldTakesEmpty(obj, possibleNames, defaultValue) ==
  IF possibleNames = <<>> THEN defaultValue
  ELSE LET name == Head(possibleNames) IN
       IF /\ obj # Undefined /\ obj # Null
          /\ name \in DOMAIN obj
          /\ obj[name] # Undefined /\ obj[name] # Null
       THEN obj[name]
       ELSE extractFieldTakesEmpty(obj, Tail(possibleNames), defaultValue)

\* `obj &&`: the object is there at all (an absent one is undefined or null).
IsObject(obj) == obj # Undefined /\ obj # Null

RECURSIVE extractField(_, _, _)
extractField(obj, possibleNames, defaultValue) ==
  IF possibleNames = <<>> THEN defaultValue
  ELSE LET name == Head(possibleNames) IN
       IF /\ IsObject(obj)
          /\ name \in DOMAIN obj
          /\ obj[name] # Undefined /\ obj[name] # Null /\ obj[name] # Str("")
       THEN obj[name]
       ELSE extractField(obj, Tail(possibleNames), defaultValue)

(***************************************************************************)
(* Request bodies.  A body is [wrapped, fields]: fields is the JSON object *)
(* sent, and wrapped says that it was sent inside {payload: fields}.       *)
(***************************************************************************)
EmptyObject == [n \in {} |-> Null]

Bodies ==
  { [wrapped |-> FALSE, fields |-> EmptyObject],
    [wrapped |-> FALSE, fields |-> ("dedupeKey" :> Str("k1")) @@ ("severity" :> Str("warning"))],
    [wrapped |-> FALSE, fields |-> ("dedupeKey" :> Str("k1")) @@ ("severity" :> Str("CRITICAL"))
                                   @@ ("id" :> Str("a1"))],
    [wrapped |-> FALSE, fields |-> ("dedupeKey" :> Str("k2")) @@ ("timestamp" :> Str(ToISOString(0)))],
    [wrapped |-> FALSE, fields |-> ("dedupeKey" :> Str("")) @@ ("uniqueId" :> Null)],
    [wrapped |-> FALSE, fields |-> ("dedupeKey" :> Str("k1")) @@ ("level" :> Num("7"))],
    [wrapped |-> FALSE, fields |-> ("deduplicationKey" :> Str("k1")) @@ ("time" :> Str("garbage"))],
    [wrapped |-> FALSE, fields |-> ("dedupeKey" :> Num("0"))],
    [wrapped |-> FALSE, fields |-> ("type" :> Str("SubscriptionConfirmation"))],
    [wrapped |-> TRUE,  fields |-> ("dedupeKey" :> Str("k2")) @@ ("severity" :> Str("warning"))] }

\* webhookData.type === 'SubscriptionConfirmation', read on the outer object.
IsSubscriptionConfirmation(body) ==
  /\ ~body.wrapped
  /\ "type" \in DOMAIN body.fields
  /\ body.fields["type"] = Str("SubscriptionConfirmation")


VARIABLES
  alertMemory,       \* the alert collection, newest first
  rawWebhookMemory,  \* the raw-webhook debug buffer, newest first
  dedupeKeys,        \* Set of seen dedupe keys
  alertDedupeMap,    \* Map dedupeKey -> alert data
  now,               \* the wall clock, Date.now()
  arrivals,          \* number of webhook requests received so far
  reply,             \* the last operation and what it answered
  call               \* the function call under examination: its arguments and result

storeVars == <<alertMemory, rawWebhookMemory, dedupeKeys, alertDedupeMap, now, arrivals, reply>>
vars == <<alertMemory, rawWebhookMemory, dedupeKeys, alertDedupeMap, now, arrivals, reply, call>>

\* No alert: the value of a reply field that has no alert to show.
NoAlert ==
  [ id |-> Undefined, severity |-> Undefined, timestamp |-> Undefined,
    dedupeKey |-> Undefined, lastUpdated |-> Undefined, ins |-> 0 ]

(***************************************************************************)
(* The deduplication functions.  The module-level collections they read    *)
(* and write are passed in and returned.                                   *)
(***************************************************************************)
isDuplicateAlert(keys, dedupeKey) == dedupeKey \in keys

\* alertMemory.findIndex(alert => alert.dedupeKey === dedupeKey); 0 for -1.
findIndex(mem, dedupeKey) ==
  IF \E i \in 1..Len(mem) : mem[i].dedupeKey = dedupeKey
  THEN CHOOSE i \in 1..Len(mem) :
         /\ mem[i].dedupeKey = dedupeKey
         /\ \A j \in 1..(i - 1) : mem[j].dedupeKey # dedupeKey
  ELSE 0

\* {...existing, ...newAlertData, dedupeKey, lastUpdated}.  newAlertData has
\* every property of a stored alert except lastUpdated, so each of them is
\* taken from newAlertData.  ins is the history field (see Normalize): it
\* belongs to the slot, not to the data.
MergedAlert(existing, newAlertData, dedupeKey, t) ==
  [ id          |-> newAlertData.id,
    severity    |-> newAlertData.severity,
    timestamp   |-> newAlertData.timestamp,
    dedupeKey   |-> dedupeKey,
    lastUpdated |-> Str(ToISOString(t)),
    ins         |-> existing.ins ]

\* The collection after updateExistingAlert(dedupeKey, newAlertData).
updateExistingAlert(mem, dedupeKey, newAlertData, t) ==
  LET existingIndex == findIndex(mem, dedupeKey) IN
  IF existingIndex # 0
  THEN [mem EXCEPT ![existingIndex] = MergedAlert(mem[existingIndex], newAlertData, dedupeKey, t)]
  ELSE mem

MapSet(map, k, a) == (k :> a) @@ map
MapDelete(map, k) == [x \in (DOMAIN map) \ {k} |-> map[x]]

\* addNewAlert without the capacity check: what the store would be if the
\* collection were never trimmed.
addNewAlertNoTrim(st, alertData) ==
  [ mem  |-> <<alertData>> \o st.mem,
    keys |-> IF Truthy(alertData.dedupeKey)
             THEN st.keys \cup {alertData.dedupeKey} ELSE st.keys,
    map  |-> IF Truthy(alertData.dedupeKey)
             THEN MapSet(st.map, alertData.dedupeKey, alertData) ELSE st.map,
    removed |-> NoAlert ]

\* addNewAlert that pops the oldest alert but leaves its key registered.
addNewAlertKeepKey(st, alertData) ==
  LET full == addNewAlertNoTrim(st, alertData) IN
  IF Len(full.mem) > MAX_ALERTS
  THEN [ mem |-> SubSeq(full.mem, 1, Len(full.mem) - 1), keys |-> full.keys,
         map |-> full.map, removed |-> full.mem[Len(full.mem)] ]
  ELSE full

\* The store [mem, keys, map] after addNewAlert(alertData), and the alert it
\* popped (removedAlert), if any.
addNewAlert(st, alertData) ==
  LET mem1  == <<alertData>> \o st.mem
      keys1 == IF Truthy(alertData.dedupeKey)
               THEN st.keys \cup {alertData.dedupeKey} ELSE st.keys
      map1  == IF Truthy(alertData.dedupeKey)
               THEN MapSet(st.map, alertData.dedupeKey, alertData) ELSE st.map
  IN IF Len(mem1) > MAX_ALERTS
     THEN LET removedAlert == mem1[Len(mem1)]
              mem2 == SubSeq(mem1, 1, Len(mem1) - 1)
          IN IF Truthy(removedAlert.dedupeKey)
             THEN [mem |-> mem2, keys |-> keys1 \ {removedAlert.dedupeKey},
                   map |-> MapDelete(map1, removedAlert.dedupeKey),
                   removed |-> removedAlert]
             ELSE [mem |-> mem2, keys |-> keys1, map |-> map1, removed |-> removedAlert]
     ELSE [mem |-> mem1, keys |-> keys1, map |-> map1, removed |-> NoAlert]

(***************************************************************************)
(* Normalisation of one payload (the alertData literal).  Of the fields    *)
(* that are plain extractField results, severity stands for all of them.   *)
(* serial is the number of this arrival: it stands for the Math.random()   *)
(* suffix of a synthesised id, and it is recorded in the history field     *)
(* ins, which the code does not have, to tell insertion order.             *)
(***************************************************************************)
RawSeverity(payload) ==
  extractField(payload, <<"severity", "level", "priority", "alertLevel">>, Str("warning"))

Normalize(payload, t, serial) ==
  [ id          |-> extractField(payload, <<"id", "alarmOCID", "alarmId", "alertId">>,
                      Str("webhook-" \o ToString(t) \o "-" \o ToString(serial))),
    severity    |-> Str(ToLowerCase(RawSeverity(payload).v)),
    timestamp   |-> extractField(payload, <<"timestamp", "time", "createdAt">>,
                      Str(ToISOString(t))),
    dedupeKey   |-> extractField(payload, <<"dedupeKey", "deduplicationKey", "uniqueId">>,
                      Str("webhook-" \o ToString(t))),
    lastUpdated |-> Undefined,
    ins         |-> serial ]

EmptyMap == [k \in {} |-> NoAlert]

NoBody == [wrapped |-> FALSE, fields |-> EmptyObject]

\* What the last operation was and what it answered or logged: op names the
\* operation, body is the request body it processed, status is the HTTP
\* status (0 for a cron callback), action is 'new' or 'updated' as in the
\* reply message, alertData is the normalised arrival, removed is the alert
\* that addNewAlert popped, and count is the number it reports (totalAlerts,
\* beforeCount, cleanedCount, clearedCount).
Reply(op, body, status, action, alertData, removed, count) ==
  [op |-> op, body |-> body, status |-> status, action |-> action,
   alertData |-> alertData, removed |-> removed, count |-> count]

Quiet(op, count) == Reply(op, NoBody, 0, "none", NoAlert, NoAlert, count)

\* rawWebhookMemory.unshift(e); if longer than MAX_RAW_WEBHOOKS, splice.
PushRaw(raw, e) ==
  LET r1 == <<e>> \o raw IN
  IF Len(r1) > MAX_RAW_WEBHOOKS THEN SubSeq(r1, 1, MAX_RAW_WEBHOOKS) ELSE r1

\* No function call is under examination while the store runs.
NoCall == [fn |-> "none"]

\* The store after the module has been loaded.
StoreInit ==
  /\ alertMemory = <<>>
  /\ rawWebhookMemory = <<>>
  /\ dedupeKeys = {}
  /\ alertDedupeMap = EmptyMap
  /\ now = 0
  /\ arrivals = 0
  /\ reply = Quiet("init", 0)

Init ==
  /\ StoreInit
  /\ call = NoCall

(***************************************************************************)
(* router.post('/oci-alerts')                                              *)
(***************************************************************************)
\* A confirmation branch that does not return early: the message is recorded
\* and then also stored as an alert.
PostConfirmationFallsThrough(body) ==
  /\ IsSubscriptionConfirmation(body)
  /\ rawWebhookMemory' =
       <<[kind |-> "confirmation", at |-> now, n |-> arrivals + 1]>> \o rawWebhookMemory
  /\ LET alertData == Normalize(body.fields, now, arrivals + 1) IN
     /\ alertMemory' = <<alertData>> \o alertMemory
     /\ dedupeKeys' = dedupeKeys \cup {alertData.dedupeKey}
     /\ alertDedupeMap' = MapSet(alertDedupeMap, alertData.dedupeKey, alertData)
     /\ reply' = Reply("post", body, 200, "confirmation", NoAlert, NoAlert, Len(alertMemory))

\* The subscription-confirmation branch: recorded, acknowledged, no alert.
PostConfirmation(body) ==
  /\ IsSubscriptionConfirmation(body)
  /\ rawWebhookMemory' =
       <<[kind |-> "confirmation", at |-> now, n |-> arrivals + 1]>> \o rawWebhookMemory
  /\ reply' = Reply("post", body, 200, "confirmation", NoAlert, NoAlert, Len(alertMemory))
  /\ UNCHANGED <<alertMemory, dedupeKeys, alertDedupeMap>>

\* severity is not a string: .toLowerCase() throws a TypeError, the handler's
\* catch answers 500.  The raw payload has been recorded by then.
PostThrows(body, payload) ==
  /\ ~IsSubscriptionConfirmation(body)
  /\ RawSeverity(payload).t # "str"
  /\ rawWebhookMemory' =
       PushRaw(rawWebhookMemory, [kind |-> "raw", at |-> now, n |-> arrivals + 1])
  /\ reply' = Reply("post", body, 500, "error", NoAlert, NoAlert, Len(alertMemory))
  /\ UNCHANGED <<alertMemory, dedupeKeys, alertDedupeMap>>

\* The normal path: record the raw payload, normalise, then update the known
\* alert or add a new one.  determineAlertType and logRawAlert, which run
\* first, catch their own errors and write only the log file, which the
\* store never reads.
PostAlert(body, payload) ==
  /\ ~IsSubscriptionConfirmation(body)
  /\ RawSeverity(payload).t = "str"
  /\ rawWebhookMemory' =
       PushRaw(rawWebhookMemory, [kind |-> "raw", at |-> now, n |-> arrivals + 1])
  /\ LET alertData == Normalize(payload, now, arrivals + 1)
         dedupeKey == alertData.dedupeKey
     IN IF Truthy(dedupeKey) /\ isDuplicateAlert(dedupeKeys, dedupeKey)
        THEN /\ alertMemory' = updateExistingAlert(alertMemory, dedupeKey, alertData, now)
             /\ UNCHANGED <<dedupeKeys, alertDedupeMap>>
             /\ reply' = Reply("post", body, 200, "updated", alertData, NoAlert,
                               Len(alertMemory))
        ELSE LET st == addNewAlert([mem |-> alertMemory, keys |-> dedupeKeys,
                                    map |-> alertDedupeMap], alertData)
             IN /\ alertMemory' = st.mem
                /\ dedupeKeys' = st.keys
                /\ alertDedupeMap' = st.map
                /\ reply' = Reply("post", body, 200, "new", alertData, st.removed,
                                  Len(st.mem))

PostOciAlerts ==
  /\ arrivals < MaxArrivals
  /\ arrivals' = arrivals + 1
  /\ UNCHANGED <<now, call>>
  /\ \E body \in Bodies :
       \* payload is webhookData.payload for a wrapped body and webhookData
       \* itself for a flat one: the object sent, either way.
       LET payload == body.fields IN
       \/ PostConfirmation(body)
       \/ PostThrows(body, payload)
       \/ PostAlert(body, payload)

\* A daily reset that clears the collection and the dedupe tracking but
\* forgets the raw-webhook buffer.
DailyResetKeepsRaw ==
  /\ alertMemory' = <<>>
  /\ dedupeKeys' = {}
  /\ alertDedupeMap' = [k \in {} |-> NoAlert]
  /\ reply' = [op |-> "reset", body |-> [wrapped |-> FALSE, fields |-> EmptyObject],
               status |-> 0, action |-> "none", alertData |-> NoAlert,
               removed |-> NoAlert, count |-> Len(alertMemory)]
  /\ UNCHANGED <<rawWebhookMemory, now, arrivals, call>>

(***************************************************************************)
(* cron.schedule('5 0 * * *'): the daily reset.                            *)
(***************************************************************************)
DailyReset ==
  /\ alertMemory' = <<>>
  /\ rawWebhookMemory' = <<>>
  /\ dedupeKeys' = {}
  /\ alertDedupeMap' = EmptyMap
  /\ reply' = Quiet("reset", Len(alertMemory))
  /\ UNCHANGED <<now, arrivals, call>>

(***************************************************************************)
(* cron.schedule('0 */6 * * *'): the periodic cleanup of old dedupe keys.  *)
(***************************************************************************)
\* The staleness test with <= in place of <.
IsStaleOrJustSixHours(alertData, t) ==
  LET alertTime == NewDate(alertData.timestamp) IN
  alertTime.valid /\ alertTime.ms <= t - SIX_HOURS

\* alertTime < sixHoursAgo for the alert data the map holds for the key.
IsStale(alertData, t) ==
  DateLess(NewDate(alertData.timestamp), [valid |-> TRUE, ms |-> t - SIX_HOURS])

StaleKeys(map, t) == {k \in DOMAIN map : IsStale(map[k], t)}

PeriodicCleanup ==
  /\ dedupeKeys' = dedupeKeys \ StaleKeys(alertDedupeMap, now)
  /\ alertDedupeMap' = [k \in (DOMAIN alertDedupeMap) \ StaleKeys(alertDedupeMap, now)
                          |-> alertDedupeMap[k]]
  /\ reply' = Quiet("cleanup", Cardinality(StaleKeys(alertDedupeMap, now)))
  /\ UNCHANGED <<alertMemory, rawWebhookMemory, now, arrivals, call>>

(***************************************************************************)
(* router.delete('/alerts'): the manual clear.                             *)
(***************************************************************************)
DeleteAlerts ==
  /\ alertMemory' = <<>>
  /\ reply' = Reply("delete", NoBody, 200, "none", NoAlert, NoAlert, Len(alertMemory))
  /\ UNCHANGED <<rawWebhookMemory, dedupeKeys, alertDedupeMap, now, arrivals, call>>

\* The clock advances between operations; it cannot advance inside one.
Tick ==
  /\ now < MaxTime
  /\ now' = now + 1
  /\ reply' = Quiet("tick", 0)
  /\ UNCHANGED <<alertMemory, rawWebhookMemory, dedupeKeys, alertDedupeMap, arrivals, call>>

Next ==
  \/ PostOciAlerts
  \/ DailyReset
  \/ PeriodicCleanup
  \/ DeleteAlerts
  \/ Tick

Spec == Init /\ [][Next]_vars


(***************************************************************************)
(* Properties.                                                             *)
(***************************************************************************)
DedupeKeyNames == <<"dedupeKey", "deduplicationKey", "uniqueId">>

\* The body has one of the dedupe key fields at all.
HasKeyField(body) == \E i \in 1..Len(DedupeKeyNames) : DedupeKeyNames[i] \in DOMAIN body.fields

\* The body carries a dedupe key: one of the fields has a usable value.
CarriesKey(body) == extractField(body.fields, DedupeKeyNames, Undefined) # Undefined

\* The positions of the alerts of mem that have dedupeKey K.
IndexesOf(mem, K) == {i \in 1..Len(mem) : mem[i].dedupeKey = K}

\* The non-empty dedupe keys of the alerts of mem.
KeysIn(mem) == {mem[i].dedupeKey : i \in {j \in 1..Len(mem) : Truthy(mem[j].dedupeKey)}}

\* The step is a webhook request that was answered 'new' or 'updated'.
Accepted == reply'.op = "post" /\ reply'.action \in {"new", "updated"}

\* C1: an arrival that carries a dedupeKey K the store knows is answered
\* 'updated', leaves the size of the collection unchanged, and afterwards the
\* collection holds exactly one alert with key K, with the arrival's severity;
\* an arrival whose K is not known is prepended and answered 'new'.
C1_UpdateVersusNew ==
  [][ (Accepted /\ CarriesKey(reply'.body)) =>
        LET K == reply'.alertData.dedupeKey IN
        IF K \in dedupeKeys
        THEN /\ reply'.action = "updated"
             /\ Len(alertMemory') = Len(alertMemory)
             /\ Cardinality(IndexesOf(alertMemory', K)) = 1
             /\ \A i \in IndexesOf(alertMemory', K) :
                  alertMemory'[i].severity = reply'.alertData.severity
        ELSE /\ reply'.action = "new"
             /\ Len(alertMemory') >= 1
             /\ alertMemory'[1] = reply'.alertData
    ]_vars

\* C2: the collection never holds two alerts with the same non-empty
\* dedupeKey.
C2_OneAlertPerKey ==
  \A i, j \in 1..Len(alertMemory) :
    (i # j /\ Truthy(alertMemory[i].dedupeKey)) =>
      alertMemory[i].dedupeKey # alertMemory[j].dedupeKey

\* C3: the key set and the key-to-alert map agree with the collection: a key
\* is in the set, and in the map, exactly when the collection holds an alert
\* with that non-empty key, and then it holds exactly one.
C3_KeysMatchCollection ==
  /\ dedupeKeys = KeysIn(alertMemory)
  /\ DOMAIN alertDedupeMap = KeysIn(alertMemory)
  /\ \A K \in dedupeKeys : Cardinality(IndexesOf(alertMemory, K)) = 1

\* C4: an arrival whose payload has no dedupe key field is answered 'new' and
\* stored as an alert of its own: it is prepended, and every alert stored
\* before keeps its content (the last one may leave by capacity).
C4_NoKeyNeverMerges ==
  [][ (Accepted /\ ~HasKeyField(reply'.body)) =>
        /\ reply'.action = "new"
        /\ Len(alertMemory') >= 1
        /\ alertMemory'[1] = reply'.alertData
        /\ \A i \in 1..Len(alertMemory) :
             (i + 1 <= Len(alertMemory')) => alertMemory'[i + 1] = alertMemory[i]
        /\ Len(alertMemory') >= Len(alertMemory)
    ]_vars

\* C5: the collection never holds more than MAX_ALERTS alerts.
C5_Capacity == Len(alertMemory) <= MAX_ALERTS

\* An insert into a full collection has just popped an alert.
C5_Witness ==
  /\ reply.op = "post" /\ reply.action = "new"
  /\ reply.removed # NoAlert
  /\ Len(alertMemory) = MAX_ALERTS


\* The history field ins of the alerts of mem: which arrivals inserted them.
InsOf(mem) == {mem[i].ins : i \in 1..Len(mem)}

\* C6: a webhook request removes an alert from the collection only when it
\* inserts into a full collection; it then removes exactly one alert, the
\* last entry, which is the oldest by insertion order, and the key of that
\* alert, if it had one, is afterwards in neither the key set nor the map.
C6_Eviction ==
  [][ reply'.op = "post" =>
        LET gone == InsOf(alertMemory) \ InsOf(alertMemory')
            exceeds == reply'.action = "new" /\ Len(alertMemory) + 1 > MAX_ALERTS
        IN /\ (gone # {}) => exceeds
           /\ exceeds =>
                LET last == alertMemory[Len(alertMemory)] IN
                /\ gone = {last.ins}
                /\ \A i \in 1..Len(alertMemory) : last.ins <= alertMemory[i].ins
                /\ alertMemory' = <<reply'.alertData>>
                                    \o SubSeq(alertMemory, 1, Len(alertMemory) - 1)
                /\ Truthy(last.dedupeKey) =>
                     /\ last.dedupeKey \notin dedupeKeys'
                     /\ last.dedupeKey \notin DOMAIN alertDedupeMap'
    ]_vars

\* An insert has just popped an alert that had a dedupe key.
C6_Witness ==
  /\ reply.op = "post" /\ reply.action = "new"
  /\ Truthy(reply.removed.dedupeKey)

\* C7: right after the daily reset the collection, the key set, the map and
\* the raw-webhook buffer are empty, and the reset can run in every state.
C7_ResetClearsAll ==
  /\ reply.op = "reset" =>
       /\ alertMemory = <<>>
       /\ dedupeKeys = {}
       /\ DOMAIN alertDedupeMap = {}
       /\ rawWebhookMemory = <<>>
  /\ ENABLED DailyReset

\* The reset has just cleared a full collection.
C7_Witness == reply.op = "reset" /\ reply.count = MAX_ALERTS

\* The keys whose alert data in the map carries a valid timestamp more than
\* SIX_HOURS before t.
OlderThanWindow(map, t) ==
  {k \in DOMAIN map : \E n \in 0..MaxTime :
     /\ map[k].timestamp = Str(ToISOString(n))
     /\ n < t - SIX_HOURS}

\* The cleanup removes exactly the keys older than the window from the set
\* and the map, and leaves the collection as it was.
CleanupEffect ==
  reply'.op = "cleanup" =>
    /\ dedupeKeys' = dedupeKeys \ OlderThanWindow(alertDedupeMap, now)
    /\ DOMAIN alertDedupeMap' = (DOMAIN alertDedupeMap) \ OlderThanWindow(alertDedupeMap, now)
    /\ \A k \in DOMAIN alertDedupeMap' : alertDedupeMap'[k] = alertDedupeMap[k]
    /\ alertMemory' = alertMemory

\* The arrival's key is not tracked although the collection holds an alert
\* with it: the state a cleanup leaves behind.
ArrivalOfUntrackedKey ==
  /\ Accepted
  /\ Truthy(reply'.alertData.dedupeKey)
  /\ reply'.alertData.dedupeKey \notin dedupeKeys
  /\ IndexesOf(alertMemory, reply'.alertData.dedupeKey) # {}

C9_UpdateKeepsIdentity ==
  [][ (reply'.op = "post" /\ reply'.action = "updated" /\ CarriesKey(reply'.body)) =>
        \A i \in IndexesOf(alertMemory, reply'.alertData.dedupeKey) :
          /\ i <= Len(alertMemory')
          /\ alertMemory'[i].id = alertMemory[i].id
          /\ alertMemory'[i].dedupeKey = alertMemory[i].dedupeKey
    ]_vars

\* C10: every webhook request with a JSON body is answered with a 2xx status.
C10_AlwaysAcknowledged ==
  reply.op = "post" => (reply.status >= 200 /\ reply.status < 300)


\* C11: the raw-webhook buffer never holds more than MAX_RAW_WEBHOOKS
\* entries, and its entries are the most recently received requests, newest
\* first.
C11_RawBufferBounded ==
  /\ Len(rawWebhookMemory) <= MAX_RAW_WEBHOOKS
  /\ \A i \in 1..Len(rawWebhookMemory) : rawWebhookMemory[i].n = arrivals - i + 1

\* C12: a SubscriptionConfirmation request is answered 200, is recorded at
\* the head of the raw-webhook buffer, and leaves the collection, the key
\* set and the map as they were.
C12_ConfirmationShortCircuits ==
  [][ (reply'.op = "post" /\ IsSubscriptionConfirmation(reply'.body)) =>
        /\ reply'.status = 200
        /\ reply'.alertData = NoAlert
        /\ Len(rawWebhookMemory') = Len(rawWebhookMemory) + 1
        /\ rawWebhookMemory'[1].kind = "confirmation"
        /\ alertMemory' = alertMemory
        /\ dedupeKeys' = dedupeKeys
        /\ alertDedupeMap' = alertDedupeMap
    ]_vars

\* A confirmation has just been answered while alerts are stored and tracked.
C12_Witness ==
  /\ reply.op = "post" /\ IsSubscriptionConfirmation(reply.body)
  /\ Len(alertMemory) > 0
  /\ dedupeKeys # {}


(***************************************************************************)
(* Pure functions, each examined on its own: a specification draws the     *)
(* arguments of one call from a bounded set and its action runs the call.  *)
(* The store is not touched by any of them.                                *)
(***************************************************************************)

(***************************************************************************)
(* extractField on its own.                                                *)
(***************************************************************************)
ExtractValues == {Undefined, Null, Str(""), Str("val"), Str("other"), Num("0")}

\* Every object with fields among "a" and "b", and the two absent objects.
ExtractObjects ==
  UNION {[K -> ExtractValues] : K \in SUBSET {"a", "b"}} \cup {Undefined, Null}

ExtractNames == {<<>>, <<"a">>, <<"b", "a">>, <<"a", "b", "c">>, <<"c", "b">>}

InitExtract ==
  /\ StoreInit
  /\ call \in [fn : {"extractField"}, obj : ExtractObjects, possibleNames : ExtractNames,
               defaultValue : {Str("X"), Null}, done : {FALSE}, result : {Undefined}]

CallExtractField ==
  /\ call.fn = "extractField"
  /\ ~call.done
  /\ call' = [call EXCEPT !.done = TRUE,
                          !.result = extractField(call.obj, call.possibleNames,
                                                  call.defaultValue)]
  /\ UNCHANGED storeVars

NextExtract == CallExtractField

SpecExtract == InitExtract /\ [][NextExtract]_vars

\* The value of name on obj counts: it is there, not null and not ''.
Usable(obj, name) ==
  /\ IsObject(obj)
  /\ name \in DOMAIN obj
  /\ obj[name] \notin {Undefined, Null, Str("")}

UsableAt(obj, names) == {i \in 1..Len(names) : Usable(obj, names[i])}

\* C14: extractField returns the value of the first candidate name, in list
\* order, whose value on the object is not undefined, not null and not the
\* empty string; when there is none, and when the object itself is absent,
\* it returns the default; the call changes neither its arguments nor the
\* store.
C14_FirstUsableOrDefault ==
  [][ (call'.fn = "extractField" /\ call'.done /\ ~call.done) =>
        LET I == UsableAt(call.obj, call.possibleNames) IN
        /\ I = {} => call'.result = call.defaultValue
        /\ I # {} => \E i \in I :
                       /\ \A j \in I : i <= j
                       /\ call'.result = call.obj[call.possibleNames[i]]
        /\ call'.obj = call.obj
        /\ call'.possibleNames = call.possibleNames
        /\ call'.defaultValue = call.defaultValue
        /\ UNCHANGED storeVars
    ]_vars

\* An empty string under the first name was passed over for the second name.
C14_Witness ==
  /\ call.fn = "extractField" /\ call.done
  /\ call.possibleNames = <<"b", "a">>
  /\ IsObject(call.obj) /\ DOMAIN call.obj = {"a", "b"}
  /\ call.obj["b"] = Str("") /\ call.obj["a"] = Num("0")
  /\ call.result = Num("0")


(***************************************************************************)
(* The server/database classification of one webhook: determineAlertType   *)
(* in the backend, and isDatabaseAlert in the query layer applied to the   *)
(* alert that the backend stores for the same webhook.                     *)
(***************************************************************************)
\* webhookData.f || '': the field when it is truthy, else the empty string.
OrEmpty(obj, f) == IF f \in DOMAIN obj /\ Truthy(obj[f]) THEN obj[f] ELSE Str("")

determineAlertType(webhookData) ==
  LET query == OrEmpty(webhookData, "query")
      name == OrEmpty(webhookData, "name")
      summary == OrEmpty(webhookData, "alarmSummary")
  IN
  \* toLowerCase / includes on a value that is not a string throws a
  \* TypeError; the catch block returns 'server'.
  IF name.t # "str" \/ summary.t # "str" \/ query.t # "str" THEN "server"
  ELSE
    LET n == ToLowerCase(name.v)
        sm == ToLowerCase(summary.v)
    IN
    IF \/ Includes(query.v, "CpuUtilization")
       \/ Includes(query.v, "MemoryUtilization")
       \/ Includes(query.v, "DiskUtilization")
       \/ Includes(query.v, "NetworkIn")
       \/ Includes(query.v, "NetworkOut")
    THEN "server"
    ELSE IF \/ Includes(query.v, "Database")
            \/ Includes(query.v, "Tablespace")
            \/ Includes(query.v, "DBCPUUtilization")
            \/ Includes(query.v, "SessionCount")
    THEN "database"
    ELSE IF \/ Includes(n, "server") \/ Includes(n, "vm") \/ Includes(n, "instance")
            \/ Includes(sm, "server") \/ Includes(sm, "vm") \/ Includes(sm, "cpu")
            \/ Includes(sm, "memory") \/ Includes(sm, "disk")
    THEN "server"
    ELSE IF \/ Includes(n, "database") \/ Includes(n, "db") \/ Includes(n, "oracle")
            \/ Includes(sm, "database") \/ Includes(sm, "db") \/ Includes(sm, "sql")
    THEN "database"
    ELSE "server"

\* The fields of alertData that the query layer classifies by.
alertDataText(payload) ==
  [ vm |-> extractField(payload, <<"vm", "resourceDisplayName", "hostname",
                                   "instanceName", "serverName">>, Str("Unknown VM")),
    message |-> extractField(payload, <<"title", "message", "alertTitle", "name",
                                        "subject">>, Str("No title available")),
    alertType |-> extractField(payload, <<"alertType", "type", "category">>, Str("REPEAT")),
    metricName |-> extractField(payload, <<"metricName", "metric", "measurement">>, Str("")) ]

\* (x || ''): x when truthy, else ''.
OrEmptyValue(x) == IF Truthy(x) THEN x ELSE Str("")

dbPatterns == <<"db", "database", "db_", "_db", "db-", "-db">>

SomePattern(text) == \E i \in 1..Len(dbPatterns) : Includes(text, dbPatterns[i])

\* isDatabaseAlert on an alert whose four fields are strings or falsy.
isDatabaseAlert(alert) ==
  LET vmName == ToLowerCase(OrEmptyValue(alert.vm).v)
      message == ToLowerCase(OrEmptyValue(alert.message).v)
      metricName == ToLowerCase(OrEmptyValue(alert.metricName).v)
      alertType == ToLowerCase(OrEmptyValue(alert.alertType).v)
  IN
  \/ SomePattern(vmName)
  \/ SomePattern(message)
  \/ SomePattern(metricName)
  \/ SomePattern(alertType)
  \/ Includes(message, "pht_database_session_alarm")
  \/ Includes(message, "gatra_sessions_alert")
  \/ Includes(message, "dtc-db_alert")
  \/ Includes(message, "qrydedb_")

\* (x || '').toLowerCase() throws a TypeError on a truthy value that is not
\* a string.
isDatabaseAlertThrows(alert) ==
  \E f \in {"vm", "message", "metricName", "alertType"} :
     OrEmptyValue(alert[f]).t # "str"

\* category: isDatabase ? 'database' : 'infrastructure'
categoryOf(alert) ==
  IF isDatabaseAlertThrows(alert) THEN "TypeError"
  ELSE IF isDatabaseAlert(alert) THEN "database" ELSE "infrastructure"

\* A JSON object with the one field f, or without it when x is Undefined.
Field(f, x) == IF x = Undefined THEN EmptyObject ELSE f :> x

ClassifyQueries ==
  { Undefined, Str("CpuUtilization[1m].mean() > 80"), Str("SessionCount[5m].max() > 100"),
    Str("Latency[1m].mean() > 5"), Num("5") }

ClassifyNames ==
  { Undefined, Str("orders-DB alarm"), Str("VM-DB-1 alarm"), Str("Oracle listener"),
    Str("queue depth"), Num("7") }

ClassifySummaries ==
  { Undefined, Str("High CPU on database host"), Str("SQL latency high"), Str("all good") }

ClassifyVms == { Undefined, Str("prod-db-01"), Str("web-01") }

ClassifyBodies ==
  { Field("query", q) @@ Field("name", n) @@ Field("alarmSummary", sm) @@ Field("vm", v) :
      q \in ClassifyQueries, n \in ClassifyNames, sm \in ClassifySummaries, v \in ClassifyVms }

InitClassify ==
  /\ StoreInit
  /\ call \in [fn : {"determineAlertType"}, webhookData : ClassifyBodies, done : {FALSE},
               alertType : {"none"}, category : {"none"}]

\* One flat webhook: its classification at line 370, and the category the
\* query layer gives the alert built from it at lines 435-467.
Classify ==
  /\ call.fn = "determineAlertType"
  /\ ~call.done
  /\ call' = [call EXCEPT !.done = TRUE,
                          !.alertType = determineAlertType(call.webhookData),
                          !.category = categoryOf(alertDataText(call.webhookData))]
  /\ UNCHANGED storeVars

NextClassify == Classify

SpecClassify == InitClassify /\ [][NextClassify]_vars

\* The text of field f of the webhook, '' when the field is not a string.
TextOf(webhookData, f) ==
  IF f \in DOMAIN webhookData /\ webhookData[f].t = "str" THEN webhookData[f].v ELSE ""

HasServerMetric(webhookData) ==
  \E m \in {"CpuUtilization", "MemoryUtilization", "DiskUtilization", "NetworkIn",
             "NetworkOut"} : Includes(TextOf(webhookData, "query"), m)

HasDatabaseMetric(webhookData) ==
  \E m \in {"Database", "Tablespace", "DBCPUUtilization", "SessionCount"} :
     Includes(TextOf(webhookData, "query"), m)

HasServerKeyword(webhookData) ==
  \/ \E k \in {"server", "vm", "instance"} :
        Includes(ToLowerCase(TextOf(webhookData, "name")), k)
  \/ \E k \in {"server", "vm", "cpu", "memory", "disk"} :
        Includes(ToLowerCase(TextOf(webhookData, "alarmSummary")), k)

HasDatabaseKeyword(webhookData) ==
  \/ \E k \in {"database", "db", "oracle"} :
        Includes(ToLowerCase(TextOf(webhookData, "name")), k)
  \/ \E k \in {"database", "db", "sql"} :
        Includes(ToLowerCase(TextOf(webhookData, "alarmSummary")), k)

\* C15: the classification is decided by the first rule that matches: a
\* known server metric in the query gives server; else a known database
\* metric in the query gives database; else a keyword in the name or
\* summary decides (server keywords before database keywords); else the
\* result is server.  It is always one of the two values.
C15_PriorityOrder ==
  (call.fn = "determineAlertType" /\ call.done) =>
     LET w == call.webhookData IN
     /\ call.alertType \in {"server", "database"}
     /\ call.alertType =
          IF HasServerMetric(w) THEN "server"
          ELSE IF HasDatabaseMetric(w) THEN "database"
          ELSE IF HasServerKeyword(w) THEN "server"
          ELSE IF HasDatabaseKeyword(w) THEN "database"
          ELSE "server"

\* C17: the category the query layer attaches to an infrastructure alert is
\* 'database' exactly when the backend classified the same webhook as
\* 'database'.
C17_CategoryMatchesClassification ==
  (call.fn = "determineAlertType" /\ call.done) =>
     (call.category = "database" <=> call.alertType = "database")


(***************************************************************************)
(* The query layer: lib/alertUtils.ts.  The repository holds two versions  *)
(* of processAlerts, the one at line 4 and the one at line 361; what       *)
(* belongs to the second carries the suffix 361.  A raw alert is a record  *)
(* of plain strings, and a field that is undefined is the empty string:    *)
(* the code reads the fields through `x || ''`, `x?.` and truthiness       *)
(* tests, which treat the two alike.                                       *)
(***************************************************************************)
Logs == "Application Logs"
Infra == "Infrastructure Alerts"
Heartbeat == "Application Heartbeat"

\* A severity mapper that shows error text as 'Error' for every source.
mapSeverityErrorForAll(severity, source) ==
  LET sv == ToLowerCase(severity) IN
  IF Includes(sv, "critical") \/ sv = "crit" \/ sv = "high" THEN "Critical"
  ELSE IF Includes(sv, "warning") \/ sv = "warn" \/ sv = "medium" THEN "Warning"
  ELSE IF Includes(sv, "error") \/ sv = "err" THEN "Error"
  ELSE "Info"

\* mapSeverity at alertUtils.ts:75; heartbeatService.ts:506 is the same text.
mapSeverity(severity, source) ==
  LET sv == ToLowerCase(severity) IN
  IF source = Infra
  THEN IF Includes(sv, "critical") \/ sv = "crit" \/ sv = "high" THEN "Critical"
       ELSE IF Includes(sv, "warning") \/ sv = "warn" \/ sv = "medium" THEN "Warning"
       ELSE IF Includes(sv, "error") \/ sv = "err" THEN "Error"
       ELSE IF Includes(sv, "info") \/ sv = "low" THEN "Info"
       ELSE "Info"
  ELSE IF Includes(sv, "critical") \/ sv = "crit" \/ sv = "high" THEN "Critical"
       ELSE IF Includes(sv, "warning") \/ sv = "warn" \/ sv = "medium" THEN "Warning"
       ELSE IF Includes(sv, "error") \/ sv = "err" \/ Includes(sv, "info") \/ sv = "low"
            THEN "Info"
       ELSE "Info"

\* mapSeverity at alertUtils.ts:370.
mapSeverity361(severity, source) ==
  LET sv == ToLowerCase(severity) IN
  IF Includes(sv, "critical") \/ sv = "crit" \/ sv = "high" THEN "Critical"
  ELSE IF Includes(sv, "warning") \/ sv = "warn" \/ sv = "medium" \/ sv = "low"
       THEN "Warning"
  ELSE IF Includes(sv, "error") \/ sv = "err" \/ sv = "info"
       THEN (IF source = Infra THEN "Error" ELSE "Info")
  ELSE (IF source = Infra THEN "Error" ELSE "Info")

(***************************************************************************)
(* mapSeverity on its own.                                                 *)
(***************************************************************************)
SeverityTexts ==
  { "", "critical", "CRITICAL", "crit", "high", "warning", "Warn", "medium", "low",
    "error", "ERROR", "err", "Internal Error", "info", "unknown", "critical error" }

InitSeverity ==
  /\ StoreInit
  /\ call \in [fn : {"mapSeverity", "mapSeverity361"}, severity : SeverityTexts,
               source : {Logs, Infra, Heartbeat}, done : {FALSE}, result : {""}]

CallMapSeverity ==
  /\ call.fn = "mapSeverity"
  /\ ~call.done
  /\ call' = [call EXCEPT !.done = TRUE,
                          !.result = mapSeverity(call.severity, call.source)]
  /\ UNCHANGED storeVars

CallMapSeverity361 ==
  /\ call.fn = "mapSeverity361"
  /\ ~call.done
  /\ call' = [call EXCEPT !.done = TRUE,
                          !.result = mapSeverity361(call.severity, call.source)]
  /\ UNCHANGED storeVars

NextSeverity ==
  \/ CallMapSeverity
  \/ CallMapSeverity361

SpecSeverity == InitSeverity /\ [][NextSeverity]_vars

\* Severity text that says error and nothing stronger.
ErrorLike(severity) ==
  LET sv == ToLowerCase(severity) IN
  /\ Includes(sv, "error") \/ sv = "err"
  /\ ~Includes(sv, "critical")
  /\ ~Includes(sv, "warning")

\* C16: the presentation severity is one of Critical, Warning, Error, Info;
\* 'Error' is produced only for infrastructure alerts; for the other sources
\* error-like severity text is mapped to 'Info'.
C16_SeverityClosedSet ==
  (call.fn \in {"mapSeverity", "mapSeverity361"} /\ call.done) =>
     /\ call.result \in {"Critical", "Warning", "Error", "Info"}
     /\ call.result = "Error" => call.source = Infra
     /\ (call.source # Infra /\ ErrorLike(call.severity)) => call.result = "Info"

\* Error text of a log alert came out as Info.
C16_Witness ==
  /\ call.fn = "mapSeverity" /\ call.done
  /\ call.source = Logs /\ call.severity = "Internal Error"
  /\ call.result = "Info"


(***************************************************************************)
(* processAlerts.  A processed alert is the record                         *)
(* [id, source, severity, title, description, timestamp, site, category,   *)
(* region, resourceType].                                                  *)
(***************************************************************************)
MaxOci == 1

\* a || b on strings.
Or(a, b) == IF a # "" THEN a ELSE b

\* Array.prototype.includes
InSeq(x, seq) == \E i \in 1..Len(seq) : seq[i] = x

StartsWith(str, prefix) ==
  Len(str) >= Len(prefix) /\ SubSeq(str, 1, Len(prefix)) = prefix

EndsWith(str, suffix) ==
  Len(str) >= Len(suffix) /\ SubSeq(str, Len(str) - Len(suffix) + 1, Len(str)) = suffix

\* alertTitle.replace(/^(OCI_|ALARM_|ERROR_)/i, '')
StripPrefix(title) ==
  LET up == ToUpperCase(title) IN
  IF StartsWith(up, "OCI_") THEN SubSeq(title, 5, Len(title))
  ELSE IF StartsWith(up, "ALARM_") \/ StartsWith(up, "ERROR_")
       THEN SubSeq(title, 7, Len(title))
       ELSE title

\* Array.prototype.find by timestamp: the first element with that timestamp,
\* as a set that is empty when there is none.
FindByTimestamp(raw, timestamp) ==
  LET I == {i \in 1..Len(raw) : raw[i].timestamp = timestamp} IN
  IF I = {} THEN {} ELSE {raw[CHOOSE i \in I : \A j \in I : i <= j]}

FindById(raw, id) ==
  LET I == {i \in 1..Len(raw) : raw[i].id = id} IN
  IF I = {} THEN {} ELSE {raw[CHOOSE i \in I : \A j \in I : i <= j]}

graylogCategory(alert) ==
  IF Includes(alert.channel, "heartbeat") \/ Includes(alert.channel, "monitor")
  THEN "heartbeat"
  ELSE IF Includes(alert.channel, "infrastructure") \/ Includes(alert.channel, "system")
       THEN "infrastructure"
       ELSE "logs"

processGraylog(alert, index) ==
  [ id |-> Or(alert._id, "graylog-" \o alert.timestamp \o "-" \o ToString(index)),
    source |-> Logs,
    severity |-> mapSeverity(alert.severity, Logs),
    title |-> Or(alert.shortMessage, "No title"),
    description |-> Or(alert.fullMessage, Or(alert.shortMessage, "No description")),
    timestamp |-> alert.timestamp,
    site |-> "",
    category |-> graylogCategory(alert),
    region |-> "",
    resourceType |-> "" ]

\* The four text fields of a raw OCI alert as the values isDatabaseAlert reads.
ociText(alert) ==
  [ vm |-> Str(alert.vm), message |-> Str(alert.message),
    alertType |-> Str(alert.alertType), metricName |-> Str(alert.metricName) ]

ociTitle(alert) ==
  LET t0 == Or(alert.message, "No title available")
      t1 == IF Includes(t0, "Processing Error") \/ Includes(t0, "OCI_ALARM_ERROR")
            THEN IF alert.metricName # "" /\ alert.metricName # "Unknown"
                 THEN alert.metricName
                 ELSE IF alert.alertType # "" /\ alert.alertType # "OCI_ALARM"
                      THEN alert.alertType
                      ELSE "Alert on " \o alert.vm
            ELSE t0
      t2 == IF Len(t1) > 100 THEN SubSeq(t1, 1, 97) \o "..." ELSE t1
  IN StripPrefix(t2)

processOci(alert, index) ==
  LET isDatabase == isDatabaseAlert(ociText(alert)) IN
  [ id |-> Or(alert._id, "oci-" \o alert.timestamp \o "-" \o ToString(index)),
    source |-> Infra,
    severity |-> mapSeverity(alert.severity, Infra),
    title |-> ociTitle(alert),
    description |-> Or(alert.message, "No description available"),
    timestamp |-> alert.timestamp,
    site |-> alert.vm,
    category |-> IF isDatabase THEN "database" ELSE "infrastructure",
    region |-> alert.region,
    resourceType |-> IF isDatabase THEN "Database" ELSE "Server" ]

processHeartbeat(alert, index) ==
  [ id |-> Or(alert.id, "heartbeat-" \o alert.timestamp \o "-" \o ToString(index)),
    source |-> Heartbeat,
    severity |-> mapSeverity(alert.severity, Heartbeat),
    title |-> alert.siteName \o " - " \o alert.service,
    description |-> alert.message,
    timestamp |-> alert.timestamp,
    site |-> alert.site,
    category |-> "heartbeat",
    region |-> "",
    resourceType |-> "" ]

processGraylog361(alert) ==
  [ id |-> Or(alert._id, "graylog-" \o alert.timestamp),
    source |-> Logs,
    severity |-> mapSeverity361(alert.severity, Logs),
    title |-> Or(alert.shortMessage, "No title"),
    description |-> Or(alert.fullMessage, Or(alert.shortMessage, "No description")),
    timestamp |-> alert.timestamp,
    site |-> "",
    category |-> graylogCategory(alert),
    region |-> "",
    resourceType |-> "" ]

processOci361(alert) ==
  [ id |-> Or(alert._id, "oci-" \o alert.timestamp),
    source |-> Infra,
    severity |-> mapSeverity361(alert.severity, Infra),
    title |-> alert.vm \o (IF alert.alertType # "" /\ alert.alertType # "OCI_ALARM"
                           THEN " - " \o alert.alertType ELSE ""),
    description |-> Or(alert.message, "No description available"),
    timestamp |-> alert.timestamp,
    site |-> alert.vm,
    category |-> "infrastructure",
    region |-> alert.region,
    resourceType |-> "" ]

processHeartbeat361(alert) ==
  [ id |-> alert.id,
    source |-> Heartbeat,
    severity |-> mapSeverity361(alert.severity, Heartbeat),
    title |-> alert.siteName \o " - " \o alert.service,
    description |-> alert.message,
    timestamp |-> alert.timestamp,
    site |-> alert.site,
    category |-> "heartbeat",
    region |-> "",
    resourceType |-> "" ]

\* filters.channel.some(channel => category or source contains it)
channelKeeps(alert, filters) ==
  \E i \in 1..Len(filters.channel) :
     \/ Includes(alert.category, ToLowerCase(filters.channel[i]))
     \/ Includes(ToLowerCase(alert.source), ToLowerCase(filters.channel[i]))

\* The callback of the dynamic filter.
dynamicKeeps(alert, filterValue, graylogAlerts, ociAlerts, heartbeatAlerts) ==
  LET g == IF alert.source = Logs
           THEN FindByTimestamp(graylogAlerts, alert.timestamp) ELSE {}
      o == IF alert.source = Infra
           THEN FindByTimestamp(ociAlerts, alert.timestamp) ELSE {}
      h == IF alert.source = Heartbeat THEN FindById(heartbeatAlerts, alert.id) ELSE {}
  IN
  \/ \E graylogAlert \in g :
        IF StartsWith(filterValue, "#")
        THEN graylogAlert.channel # ""
             /\ ToLowerCase(graylogAlert.channel) = ToLowerCase(filterValue)
        ELSE \/ Includes(ToUpperCase(graylogAlert.fullMessage), ToUpperCase(filterValue))
             \/ Includes(ToUpperCase(graylogAlert.shortMessage), ToUpperCase(filterValue))
  \/ \E ociAlert \in o :
        \/ ociAlert.tenant # "" /\ ToLowerCase(ociAlert.tenant) = ToLowerCase(filterValue)
        \/ Includes(ToLowerCase(ociAlert.vm), ToLowerCase(filterValue))
  \/ \E heartbeatAlert \in h :
        \/ heartbeatAlert.service # ""
           /\ ToLowerCase(heartbeatAlert.service) = ToLowerCase(filterValue)
        \/ /\ heartbeatAlert.site # ""
           /\ LET site == ToLowerCase(heartbeatAlert.site) IN
              \/ filterValue = "DBSPC" /\ EndsWith(site, "_dbspc")
              \/ filterValue = "gse" /\ EndsWith(site, "-gse")
              \/ filterValue = "aal" /\ EndsWith(site, "_aal")

\* The callback of the resource-type filter at line 544.
resourceTypeKeeps361(alert, filters, ociAlerts) ==
  \/ alert.source # Infra
  \/ \E ociAlert \in FindByTimestamp(ociAlerts, alert.timestamp) :
        LET isDatabase ==
              \/ Includes(ToLowerCase(ociAlert.alertType), "database")
              \/ Includes(ToLowerCase(ociAlert.metricName), "database")
              \/ Includes(ToLowerCase(ociAlert.alertType), "db")
              \/ Includes(ToLowerCase(ociAlert.vm), "db")
        IN IF filters.resourceType = "Database" THEN isDatabase ELSE ~isDatabase

searchKeeps(alert, filters) ==
  LET searchLower == ToLowerCase(filters.searchText) IN
  \/ Includes(ToLowerCase(alert.title), searchLower)
  \/ Includes(ToLowerCase(alert.description), searchLower)
  \/ alert.site # "" /\ Includes(ToLowerCase(alert.site), searchLower)

\* The filters that the two versions share, from the channel filter on.
commonFilters(alerts, graylogAlerts, ociAlerts, heartbeatAlerts, filters, version361) ==
  LET f3 == IF Len(filters.channel) > 0
            THEN SelectSeq(alerts, LAMBDA a : channelKeeps(a, filters))
            ELSE alerts
      f4 == IF filters.dynamicFilter # "" /\ filters.dynamicFilter # "ALL"
            THEN SelectSeq(f3, LAMBDA a : dynamicKeeps(a, filters.dynamicFilter,
                                                       graylogAlerts, ociAlerts,
                                                       heartbeatAlerts))
            ELSE f3
      f5 == IF filters.region # "" /\ filters.region # "ALL"
            THEN SelectSeq(f4, LAMBDA a : a.source # Infra \/ a.region = filters.region)
            ELSE f4
      f6 == IF filters.resourceType # "" /\ filters.resourceType # "ALL"
            THEN IF version361
                 THEN SelectSeq(f5, LAMBDA a : resourceTypeKeeps361(a, filters, ociAlerts))
                 ELSE SelectSeq(f5, LAMBDA a : a.source # Infra
                                               \/ a.resourceType = filters.resourceType)
            ELSE f5
  IN IF filters.searchText # ""
     THEN SelectSeq(f6, LAMBDA a : searchKeeps(a, filters))
     ELSE f6

\* processAlerts at line 4 up to the sort: the local filteredAlerts, and the
\* empty list of the early return.
filteredAlerts(graylogAlerts, ociAlerts, heartbeatAlerts, filters) ==
  IF Len(filters.source) = 0 THEN <<>>
  ELSE
    LET p1 == IF InSeq(Logs, filters.source)
              THEN [i \in 1..Len(graylogAlerts) |-> processGraylog(graylogAlerts[i], i - 1)]
              ELSE <<>>
        p2 == IF InSeq(Infra, filters.source)
              THEN [i \in 1..Len(ociAlerts) |-> processOci(ociAlerts[i], i - 1)]
              ELSE <<>>
        p3 == IF InSeq(Heartbeat, filters.source)
              THEN [i \in 1..Len(heartbeatAlerts) |->
                       processHeartbeat(heartbeatAlerts[i], i - 1)]
              ELSE <<>>
        processedAlerts == p1 \o p2 \o p3
        f1 == IF Len(filters.severity) > 0
              THEN SelectSeq(processedAlerts, LAMBDA a : InSeq(a.severity, filters.severity))
              ELSE processedAlerts
        f2 == IF Len(filters.source) > 0
              THEN SelectSeq(f1, LAMBDA a : InSeq(a.source, filters.source))
              ELSE f1
    IN commonFilters(f2, graylogAlerts, ociAlerts, heartbeatAlerts, filters, FALSE)

\* processAlerts at line 361 up to the sort.
filteredAlerts361(graylogAlerts, ociAlerts, heartbeatAlerts, filters) ==
  LET p1 == [i \in 1..Len(graylogAlerts) |-> processGraylog361(graylogAlerts[i])]
      p2 == [i \in 1..Len(ociAlerts) |-> processOci361(ociAlerts[i])]
      p3 == [i \in 1..Len(heartbeatAlerts) |-> processHeartbeat361(heartbeatAlerts[i])]
      processedAlerts == p1 \o p2 \o p3
      f1 == IF Len(filters.severity) > 0
            THEN SelectSeq(processedAlerts, LAMBDA a : InSeq(a.severity, filters.severity))
            ELSE processedAlerts
      f2 == IF Len(filters.source) > 0
            THEN SelectSeq(f1, LAMBDA a : InSeq(a.source, filters.source))
            ELSE f1
  IN commonFilters(f2, graylogAlerts, ociAlerts, heartbeatAlerts, filters, TRUE)

(***************************************************************************)
(* filteredAlerts.sort((a, b) => new Date(b.timestamp).getTime() -         *)
(*                               new Date(a.timestamp).getTime())          *)
(* An unparseable timestamp gives NaN, which sort takes for 0.  When the   *)
(* comparator is a consistent one, the result is the stable sort; when it  *)
(* is not, the order is implementation-defined (ECMA-262,                  *)
(* Array.prototype.sort): what comes out is some ordering in which no two  *)
(* neighbours are the wrong way round for the comparator, which is what    *)
(* the insertion and merge sorts of the engines establish.                 *)
(***************************************************************************)
getTime(timestamp) == NewDate(Str(timestamp))

\* The comparator's verdict on a before b: "lt" a first, "gt" b first, "eq".
compare(a, b) ==
  LET ta == getTime(a.timestamp)
      tb == getTime(b.timestamp)
  IN IF ~ta.valid \/ ~tb.valid THEN "eq"
     ELSE IF tb.ms < ta.ms THEN "lt"
     ELSE IF tb.ms > ta.ms THEN "gt"
     ELSE "eq"

\* "eq" is transitive on the elements of the list.
ConsistentComparator(list) ==
  \A i, j, k \in 1..Len(list) :
     (compare(list[i], list[j]) = "eq" /\ compare(list[j], list[k]) = "eq")
        => compare(list[i], list[k]) = "eq"

Orderings(list) ==
  LET n == Len(list) IN
  { [i \in 1..n |-> list[p[i]]] :
      p \in {f \in [1..n -> 1..n] : \A i, j \in 1..n : f[i] = f[j] => i = j} }

StableSort(list) ==
  LET n == Len(list)
      Before(j, i) == \/ compare(list[j], list[i]) = "lt"
                      \/ compare(list[j], list[i]) = "eq" /\ j < i
      Position(i) == 1 + Cardinality({j \in 1..n : Before(j, i)})
  IN [k \in 1..n |-> list[CHOOSE i \in 1..n : Position(i) = k]]

sort(list) ==
  IF ConsistentComparator(list) THEN {StableSort(list)}
  ELSE {p \in Orderings(list) : \A i \in 1..(Len(p) - 1) : compare(p[i], p[i + 1]) # "gt"}

(***************************************************************************)
(* processAlerts on its own.                                               *)
(***************************************************************************)
GraylogLists ==
  LET g1 == [ _id |-> "g1", channel |-> "#heartbeat-monitor", shortMessage |-> "disk error",
              fullMessage |-> "Disk error on WEB-01", severity |-> "error",
              timestamp |-> ToISOString(0) ]
      g2 == [ _id |-> "", channel |-> "#alerts", shortMessage |-> "login failed",
              fullMessage |-> "", severity |-> "critical", timestamp |-> ToISOString(1) ]
  IN {<<>>, <<g1>>, <<g2, g1>>}

OciSamples ==
  { [ _id |-> "", severity |-> "critical", message |-> "Processing Error", vm |-> "prod-db-01",
      tenant |-> "acme", region |-> "us-1", alertType |-> "OCI_ALARM",
      metricName |-> "CpuUtilization", timestamp |-> ToISOString(1) ],
    [ _id |-> "o2", severity |-> "error", message |-> "OCI_disk full", vm |-> "web-01",
      tenant |-> "", region |-> "eu-1", alertType |-> "", metricName |-> "",
      timestamp |-> "garbage" ],
    [ _id |-> "o3", severity |-> "", message |-> "", vm |-> "web-02",
      tenant |-> "acme", region |-> "us-1", alertType |-> "REPEAT", metricName |-> "",
      timestamp |-> ToISOString(0) ] }

OciLists == UNION {[1..n -> OciSamples] : n \in 0..MaxOci}

HeartbeatLists ==
  LET h1 == [ id |-> "heartbeat-S1-WEB-T1", site |-> "s1_dbspc", siteName |-> "Test",
              service |-> "WEB", status |-> "RED", severity |-> "critical",
              message |-> "WEB service is down on Test", timestamp |-> ToISOString(1) ]
      h2 == [ id |-> "heartbeat-S2-DB-T2", site |-> "s2", siteName |-> "Other",
              service |-> "DB", status |-> "GREEN", severity |-> "info",
              message |-> "DB service on Other is operational",
              timestamp |-> ToISOString(2) ]
  IN {<<>>, <<h1>>, <<h1, h2>>}

FilterValues ==
  [ source : {<<>>, <<Logs>>, <<Infra>>, <<Heartbeat, Infra>>, <<Logs, Infra, Heartbeat>>},
    severity : {<<>>, <<"Critical", "Info">>},
    channel : {<<>>, <<"Infrastructure">>},
    dynamicFilter : {"", "web"},
    region : {"ALL", "us-1"},
    resourceType : {"", "Server"},
    searchText : {"", "ON"} ]

InitFilter ==
  /\ StoreInit
  /\ call \in [fn : {"processAlerts", "processAlerts361"}, graylogAlerts : GraylogLists,
               ociAlerts : OciLists, heartbeatAlerts : HeartbeatLists,
               filters : FilterValues, done : {FALSE}, unsorted : {<<>>},
               result : {<<>>}]

CallProcessAlerts ==
  /\ call.fn = "processAlerts"
  /\ ~call.done
  /\ LET unsorted == filteredAlerts(call.graylogAlerts, call.ociAlerts,
                                    call.heartbeatAlerts, call.filters)
     IN \E sortedAlerts \in sort(unsorted) :
           call' = [call EXCEPT !.done = TRUE, !.unsorted = unsorted,
                                !.result = sortedAlerts]
  /\ UNCHANGED storeVars

CallProcessAlerts361 ==
  /\ call.fn = "processAlerts361"
  /\ ~call.done
  /\ LET unsorted == filteredAlerts361(call.graylogAlerts, call.ociAlerts,
                                       call.heartbeatAlerts, call.filters)
     IN \E sortedAlerts \in sort(unsorted) :
           call' = [call EXCEPT !.done = TRUE, !.unsorted = unsorted,
                                !.result = sortedAlerts]
  /\ UNCHANGED storeVars

NextFilter ==
  \/ CallProcessAlerts
  \/ CallProcessAlerts361

SpecFilter == InitFilter /\ [][NextFilter]_vars

FilterDone == call.fn \in {"processAlerts", "processAlerts361"} /\ call.done

\* C13: the filter returns only records whose source is a member of the
\* requested source set, whatever the input alerts and the other filters
\* are; when the source set is empty it returns the empty list.
C13_OnlyRequestedSources ==
  FilterDone =>
     /\ \A i \in 1..Len(call.result) : InSeq(call.result[i].source, call.filters.source)
     /\ Len(call.filters.source) = 0 => call.result = <<>>

\* C18: the output is ordered by timestamp, newest first, and records with
\* equal timestamps keep the relative order they had before the sort.
C18_NewestFirstStable ==
  FilterDone =>
     \A i, j \in 1..Len(call.result) :
        i < j =>
          LET a == call.result[i]
              b == call.result[j]
              First(x) == CHOOSE k \in 1..Len(call.unsorted) :
                            /\ call.unsorted[k] = x
                            /\ \A m \in 1..Len(call.unsorted) :
                                  call.unsorted[m] = x => k <= m
          IN
          /\ (getTime(a.timestamp).valid /\ getTime(b.timestamp).valid)
                => getTime(a.timestamp).ms >= getTime(b.timestamp).ms
          /\ a.timestamp = b.timestamp => First(a) <= First(b)


(***************************************************************************)
(* The heartbeat interpreter: HeartbeatService.convertToAlerts in          *)
(* lib/heartbeatService.ts.  A system is the record [SITE, SITENAME,       *)
(* SITETYPE, WEB, DB, MTSERVER, IVRRPT, UPD_DATETIME]; a status that the   *)
(* system does not carry is the empty string.                              *)
(***************************************************************************)
MaxSystems == 2

criticalSystems ==
  { "LOCATIONSERVER", "HAPROXY", "CONFIGSERVICEWS", "QRYDEAPPSERVER", "QRYDE", "OSRMSERVER",
    "PENQUIS_SS_MAINE", "WPSITE", "GPSVOXQRYDETRACKER", "ESSTS_CTSNOVUS", "_AAL", "-GSE" }

isCriticalSystem(siteName) ==
  \E critical \in criticalSystems : Includes(ToUpperCase(siteName), critical)

services == <<"WEB", "DB", "MTSERVER", "IVRRPT">>

\* An interpreter that reports the services in trouble only.
serviceAlertsErrorsOnly(system, service) ==
  LET status == system[service] IN
  IF status \in {"RED", "ORANGE"}
  THEN << [ id |-> "heartbeat-" \o system.SITE \o "-" \o service \o "-" \o system.UPD_DATETIME,
            site |-> system.SITE, siteName |-> system.SITENAME, service |-> service,
            status |-> status,
            severity |-> IF status = "RED" THEN "critical" ELSE "medium",
            message |-> service \o " service is down on " \o system.SITENAME,
            timestamp |-> system.UPD_DATETIME, siteType |-> system.SITETYPE ] >>
  ELSE <<>>

\* The body of services.forEach: the alerts pushed for one service of one
\* system, none or one.
serviceAlerts(system, service) ==
  LET status == system[service] IN
  IF status = "" \/ status = "..." THEN <<>>
  ELSE
    LET severity == IF status = "RED" THEN "critical"
                    ELSE IF status = "ORANGE" THEN "medium"
                    ELSE "info"
        message ==
          IF status = "RED" THEN service \o " service is down on " \o system.SITENAME
          ELSE IF status = "ORANGE"
               THEN service \o " service has warnings on " \o system.SITENAME
          ELSE IF status = "GREEN"
               THEN IF system.SITETYPE = "STANDALONE"
                    THEN system.SITENAME \o " system is operational"
                    ELSE service \o " service on " \o system.SITENAME \o " is operational"
          ELSE ""
    IN IF message # ""
       THEN << [ id |-> "heartbeat-" \o system.SITE \o "-" \o service \o "-"
                        \o system.UPD_DATETIME,
                 site |-> system.SITE, siteName |-> system.SITENAME, service |-> service,
                 status |-> status, severity |-> severity, message |-> message,
                 timestamp |-> system.UPD_DATETIME, siteType |-> system.SITETYPE ] >>
       ELSE <<>>

systemAlerts(system) ==
  serviceAlerts(system, services[1]) \o serviceAlerts(system, services[2])
    \o serviceAlerts(system, services[3]) \o serviceAlerts(system, services[4])

RECURSIVE convertToAlerts(_)
convertToAlerts(systems) ==
  IF systems = <<>> THEN <<>>
  ELSE systemAlerts(Head(systems)) \o convertToAlerts(Tail(systems))

HeartbeatSystems ==
  { [ SITE |-> IF name = "Test" THEN "S1" ELSE "S2", SITENAME |-> name, SITETYPE |-> type,
      WEB |-> web,
      DB |-> IF name = "Test" THEN "RED" ELSE "...",
      MTSERVER |-> IF type = "MULTI" THEN "ORANGE" ELSE "",
      IVRRPT |-> "GREEN", UPD_DATETIME |-> ToISOString(1) ] :
      name \in {"Test", "HAProxy-gse"}, type \in {"STANDALONE", "MULTI"},
      web \in {"GREEN", "RED", "ORANGE", "...", "", "BLUE"} }

InitConvert ==
  /\ StoreInit
  /\ call \in [fn : {"convertToAlerts"},
               systems : UNION {[1..n -> HeartbeatSystems] : n \in 0..MaxSystems},
               done : {FALSE}, result : {<<>>}]

CallConvertToAlerts ==
  /\ call.fn = "convertToAlerts"
  /\ ~call.done
  /\ call' = [call EXCEPT !.done = TRUE, !.result = convertToAlerts(call.systems)]
  /\ UNCHANGED storeVars

NextConvert == CallConvertToAlerts

SpecConvert == InitConvert /\ [][NextConvert]_vars

KnownStatus(status) == status \in {"GREEN", "RED", "ORANGE"}

\* The record r reports service svc of system sys.
ReportsOn(r, sys, svc) ==
  /\ r.site = sys.SITE /\ r.siteName = sys.SITENAME /\ r.siteType = sys.SITETYPE
  /\ r.timestamp = sys.UPD_DATETIME
  /\ r.service = svc /\ r.status = sys[svc]

\* C19: the interpreter outputs exactly one record for each (system, service)
\* pair whose status is a known value and none for a pair whose status is
\* absent or the placeholder; the severity is critical for RED, medium for
\* ORANGE and info for GREEN, whether or not the site is critical-class.
C19_OneRecordPerKnownStatus ==
  (call.fn = "convertToAlerts" /\ call.done) =>
     LET sys == call.systems
         out == call.result
         Svc == {services[n] : n \in 1..Len(services)}
     IN
     /\ Len(out) = Cardinality({p \in (1..Len(sys)) \X Svc : KnownStatus(sys[p[1]][p[2]])})
     /\ \A i \in 1..Len(sys) : \A svc \in Svc :
           Cardinality({k \in 1..Len(out) : ReportsOn(out[k], sys[i], svc)})
             = IF KnownStatus(sys[i][svc])
               THEN Cardinality({j \in 1..Len(sys) :
                                   /\ sys[j].SITE = sys[i].SITE
                                   /\ sys[j].SITENAME = sys[i].SITENAME
                                   /\ sys[j].SITETYPE = sys[i].SITETYPE
                                   /\ sys[j].UPD_DATETIME = sys[i].UPD_DATETIME
                                   /\ sys[j][svc] = sys[i][svc]})
               ELSE 0
     /\ \A k \in 1..Len(out) :
           out[k].severity = CASE out[k].status = "RED" -> "critical"
                               [] out[k].status = "ORANGE" -> "medium"
                               [] out[k].status = "GREEN" -> "info"
                               [] OTHER -> "none"
     /\ \A k, m \in 1..Len(out) :
           (out[k].status = out[m].status
              /\ isCriticalSystem(out[k].siteName) /\ ~isCriticalSystem(out[m].siteName))
             => out[k].severity = out[m].severity

\* A critical-class site and an ordinary site were interpreted together, the
\* first with a healthy and a placeholder status, the second with a RED one.
C19_Witness ==
  /\ call.fn = "convertToAlerts" /\ call.done
  /\ Len(call.systems) = 2
  /\ isCriticalSystem(call.systems[1].SITENAME) /\ ~isCriticalSystem(call.systems[2].SITENAME)
  /\ call.systems[1].WEB = "GREEN" /\ call.systems[1].DB = "..."
  /\ call.systems[2].WEB = "RED"
  /\ \E k, m \in 1..Len(call.result) :
        /\ call.result[k].siteName = call.systems[1].SITENAME
        /\ call.result[k].service = "WEB" /\ call.result[k].severity = "info"
        /\ call.result[m].siteName = call.systems[2].SITENAME
        /\ call.result[m].service = "WEB" /\ call.result[m].severity = "critical"
        /\ Includes(call.result[m].message, "down on Test")


(***************************************************************************)
(* HeartbeatService.fetchHeartbeatData: one fetch, from the moment the     *)
(* executor has created the WebSocket and armed the timeout.  The timer    *)
(* callback and the four WebSocket handlers are the actions; each runs to  *)
(* completion.  The call record holds the closure variables dataReceived   *)
(* and connectionError, the socket's readyState, the timer, the promise    *)
(* and the time elapsed since the fetch began.                             *)
(***************************************************************************)
TimeoutBound == 2

\* config.timeout (10000 ms), in ticks of the model clock.
timeout == TimeoutBound

Pending == [state |-> "pending", value |-> <<>>, reason |-> ""]

\* resolve(value) and reject(reason) settle a pending promise and do nothing
\* to a settled one.
resolve(promise, value) ==
  IF promise.state = "pending"
  THEN [state |-> "fulfilled", value |-> value, reason |-> ""]
  ELSE promise

reject(promise, reason) ==
  IF promise.state = "pending"
  THEN [state |-> "rejected", value |-> <<>>, reason |-> reason]
  ELSE promise

\* What the server can send: event.data is text that does not parse, text
\* that parses to something without elements (null, {}, []), or the JSON of
\* a list of systems.
Replies ==
  { [json |-> "invalid", systems |-> <<>>],
    [json |-> "empty", systems |-> <<>>] }
  \cup { [json |-> "array", systems |-> <<sys>>] : sys \in HeartbeatSystems }

\* ws.close() on the socket's readyState.
wsClose(ws) == IF ws \in {"connecting", "open"} THEN "closing" ELSE ws

\* The executor: new WebSocket(...) and setTimeout(...), or the catch block
\* when the constructor throws.
InitFetch ==
  /\ StoreInit
  /\ call \in { [ fn |-> "fetchHeartbeatData", ws |-> "connecting", timer |-> "armed",
                  dataReceived |-> FALSE, connectionError |-> FALSE, sent |-> FALSE,
                  errored |-> FALSE,
                  promise |-> Pending, elapsed |-> 0, reply |-> <<>> ],
                [ fn |-> "fetchHeartbeatData", ws |-> "none", timer |-> "none",
                  dataReceived |-> FALSE, connectionError |-> FALSE, sent |-> FALSE,
                  errored |-> FALSE,
                  promise |-> reject(Pending, "Failed to create heartbeat WebSocket"),
                  elapsed |-> 0, reply |-> <<>> ] }

Fetching == call.fn = "fetchHeartbeatData"

\* A timeout callback that gives up with an empty list.
TimeoutResolvesEmpty ==
  /\ Fetching
  /\ call.timer = "armed"
  /\ call.elapsed = timeout
  /\ call' = IF ~call.dataReceived
             THEN [call EXCEPT !.timer = "fired", !.connectionError = TRUE,
                               !.ws = wsClose(call.ws),
                               !.promise = resolve(call.promise, <<>>)]
             ELSE [call EXCEPT !.timer = "fired"]
  /\ UNCHANGED storeVars

\* The setTimeout callback; it runs when the timer is still armed at the time
\* the timeout has elapsed.
Timeout ==
  /\ Fetching
  /\ call.timer = "armed"
  /\ call.elapsed = timeout
  /\ call' = IF ~call.dataReceived
             THEN [call EXCEPT !.timer = "fired", !.connectionError = TRUE,
                               !.ws = wsClose(call.ws),
                               !.promise = reject(call.promise,
                                                  "Heartbeat connection timeout")]
             ELSE [call EXCEPT !.timer = "fired"]
  /\ UNCHANGED storeVars

\* clearTimeout(timeoutId): an armed timer will not fire; a timer that has
\* fired or was cleared stays as it is.
clearTimeout(timer) == IF timer = "armed" THEN "cleared" ELSE timer

\* ws.onopen
OnOpen ==
  /\ Fetching
  /\ call.ws = "connecting"
  /\ call' = [call EXCEPT !.ws = "open", !.sent = TRUE]
  /\ UNCHANGED storeVars

\* ws.onmessage: a message event is dispatched only while the socket is open.
OnMessage ==
  /\ Fetching
  /\ call.ws = "open"
  /\ \E data \in Replies :
        call' = [call EXCEPT
                   !.dataReceived = TRUE,
                   !.timer = clearTimeout(call.timer),
                   !.reply = Append(call.reply, data),
                   !.promise =
                      IF data.json = "invalid"
                      THEN reject(call.promise, "Failed to parse heartbeat data")
                      ELSE IF data.json = "array" /\ Len(data.systems) > 0
                           THEN resolve(call.promise, convertToAlerts(data.systems))
                           ELSE resolve(call.promise, <<>>),
                   !.ws = wsClose(call.ws)]
  /\ UNCHANGED storeVars

\* ws.onerror: the connection failed, or was closed before it was
\* established; the close event follows.
OnError ==
  /\ Fetching
  /\ call.ws \in {"connecting", "open", "closing"}
  /\ ~call.errored
  /\ call' = [call EXCEPT
                !.errored = TRUE,
                !.timer = clearTimeout(call.timer),
                !.promise = IF ~call.dataReceived /\ ~call.connectionError
                            THEN reject(call.promise, "Heartbeat WebSocket error")
                            ELSE call.promise,
                !.ws = "closing"]
  /\ UNCHANGED storeVars

\* ws.onclose
OnClose ==
  /\ Fetching
  /\ call.ws \in {"connecting", "open", "closing"}
  /\ call' = [call EXCEPT
                !.timer = clearTimeout(call.timer),
                !.promise = IF ~call.dataReceived /\ ~call.connectionError
                            THEN reject(call.promise,
                                        "Heartbeat WebSocket closed unexpectedly")
                            ELSE call.promise,
                !.ws = "closed"]
  /\ UNCHANGED storeVars

\* Time passes, up to the moment the timeout is due; the timer callback is
\* the next thing to run then, unless the timer has been cleared.
FetchTick ==
  /\ Fetching
  /\ call.elapsed < timeout
  /\ call' = [call EXCEPT !.elapsed = call.elapsed + 1]
  /\ UNCHANGED storeVars

NextFetch ==
  \/ Timeout
  \/ OnOpen
  \/ OnMessage
  \/ OnError
  \/ OnClose
  \/ FetchTick

\* The clock runs and a due timer fires: the event loop does not starve them.
SpecFetch ==
  InitFetch /\ [][NextFetch]_vars /\ WF_vars(FetchTick) /\ WF_vars(Timeout)

\* The step is the handling of the first reply, by a fetch still pending.
FirstReply == Fetching /\ call.promise.state = "pending" /\ Len(call'.reply) = 1
                /\ Len(call.reply) = 0

\* The step is the timeout callback running.
TimerFires == Fetching /\ call.timer = "armed" /\ call'.timer = "fired"

\* The parts of the claim that do not depend on what the reply holds: the
\* promise settles at most once, a timeout that finds the fetch pending
\* rejects it, a pending fetch still has its timer armed, after a reply the
\* timer never fires, and the fetch is settled in the end.
SettlesOnceBoundedByTimeout ==
  /\ [][ (Fetching /\ call.promise.state # "pending") => call'.promise = call.promise ]_vars
  /\ [][ (TimerFires /\ call.promise.state = "pending") =>
            /\ call'.promise.state = "rejected"
            /\ call'.promise.value = <<>> ]_vars
  /\ [][ (Fetching /\ call.dataReceived) => call'.timer # "fired" ]_vars
  /\ []((Fetching /\ call.promise.state = "pending") =>
           (call.timer = "armed" /\ ~call.dataReceived))
  /\ <>(Fetching /\ call.promise.state # "pending")

MaxCycles == 2
MaxFetched == 2
RequestTimeoutBound == 2

\* The 60000 ms of the route's timer, in ticks of the model clock.
requestTimeout == RequestTimeoutBound

\* The alert getOCIAlerts returns alone when its outer try fails.
serviceErrorAlert(message) ==
  [ severity |-> "critical", message |-> "OCI Service Error: " \o message,
    vm |-> "Service Connection Failed", tenant |-> "OCI Service",
    region |-> "error", compartment |-> "error",
    alertType |-> "OCI_SERVICE_ERROR", metricName |-> "ConnectionError" ]

\* Alerts getOCIAlerts builds from alarms.
FetchedSamples ==
  { [ severity |-> "warning", message |-> "High CPU", vm |-> "WEB-01",
      tenant |-> "GATRA", region |-> "us-1", compartment |-> "c1",
      alertType |-> "OCI_ALARM", metricName |-> "CpuUtilization" ],
    [ severity |-> "error", message |-> "Disk", vm |-> "Processing Error",
      tenant |-> "Unknown", region |-> "us-1", compartment |-> "c2",
      alertType |-> "OCI_ALARM_ERROR", metricName |-> "ProcessingError" ] }

FetchedLists == UNION {[1..n -> FetchedSamples] : n \in 0..MaxFetched}

\* The filters of the route on req.query; "" is a parameter not given and
\* limit 0 is no (or a non-positive) limit.
queryFilters(ociAlerts, query) ==
  LET Given(p) == p # "" /\ p # "all"
      bySeverity == IF Given(query.severity)
                    THEN SelectSeq(ociAlerts, LAMBDA a :
                           ToLowerCase(a.severity) = ToLowerCase(query.severity))
                    ELSE ociAlerts
      byVm == IF Given(query.vm)
              THEN SelectSeq(bySeverity, LAMBDA a :
                     a.vm # "" /\ Includes(ToLowerCase(a.vm), ToLowerCase(query.vm)))
              ELSE bySeverity
      byTenant == IF Given(query.tenant)
                  THEN SelectSeq(byVm, LAMBDA a :
                         a.tenant # "" /\ ToLowerCase(a.tenant) = ToLowerCase(query.tenant))
                  ELSE byVm
      byRegion == IF Given(query.region)
                  THEN SelectSeq(byTenant, LAMBDA a :
                         a.region # "" /\ ToLowerCase(a.region) = ToLowerCase(query.region))
                  ELSE byTenant
      byType == IF Given(query.alertType)
                THEN SelectSeq(byRegion, LAMBDA a :
                       a.alertType # "" /\ ToLowerCase(a.alertType) = ToLowerCase(query.alertType))
                ELSE byRegion
  IN IF query.limit > 0 /\ query.limit < Len(byType)
     THEN SubSeq(byType, 1, query.limit)
     ELSE byType

NoQuery == [ severity |-> "", vm |-> "", tenant |-> "", region |-> "",
             alertType |-> "", limit |-> 0 ]

\* The dashboard asks with limit 100; other clients may filter.
Queries ==
  { [NoQuery EXCEPT !.limit = 100],
    [NoQuery EXCEPT !.limit = 1],
    [NoQuery EXCEPT !.severity = "Warning"],
    [NoQuery EXCEPT !.vm = "web", !.tenant = "gatra", !.region = "US-1",
                    !.alertType = "oci_alarm"] }

NoResponse == [status |-> 0, body |-> <<>>]

InitPoll ==
  /\ StoreInit
  /\ call = [ fn |-> "fetchOCIAlerts", ociAlerts |-> <<>>, cycle |-> 0,
              phase |-> "idle", query |-> NoQuery, race |-> Pending,
              service |-> "none", elapsed |-> 0, res |-> NoResponse,
              before |-> <<>>, outcome |-> "none" ]

Polling == call.fn = "fetchOCIAlerts"

\* The interval fires: the dashboard sends the request, the route arms its
\* timer and calls getOCIAlerts.
fetchOCIAlerts ==
  /\ Polling
  /\ call.phase = "idle"
  /\ call.cycle < MaxCycles
  /\ \E query \in Queries :
        call' = [call EXCEPT !.phase = "waiting", !.query = query,
                             !.race = Pending, !.service = "running",
                             !.elapsed = 0, !.res = NoResponse,
                             !.before = call.ociAlerts, !.outcome = "none"]
  /\ UNCHANGED storeVars

\* The route's continuation after the race: it answers once, with what
\* getOCIAlerts resolved with, filtered.
Answer(value) ==
  IF call.race.state = "pending"
  THEN [status |-> 200, body |-> queryFilters(value, call.query)]
  ELSE call.res

\* getOCIAlerts resolves with the alerts it built.
getOCIAlertsReturns ==
  /\ Polling
  /\ call.phase = "waiting"
  /\ call.service = "running"
  /\ \E alerts \in FetchedLists :
        call' = [call EXCEPT !.service = "returned",
                             !.race = resolve(call.race, alerts),
                             !.res = Answer(alerts),
                             !.outcome = IF call.race.state = "pending"
                                         THEN "returned" ELSE call.outcome]
  /\ UNCHANGED storeVars

\* A call of getOCIAlerts's outer try throws: its catch resolves with the
\* service error alert.
getOCIAlertsFails ==
  /\ Polling
  /\ call.phase = "waiting"
  /\ call.service = "running"
  /\ LET alerts == <<serviceErrorAlert("connect ETIMEDOUT")>>
     IN call' = [call EXCEPT !.service = "failed",
                             !.race = resolve(call.race, alerts),
                             !.res = Answer(alerts),
                             !.outcome = IF call.race.state = "pending"
                                         THEN "failed" ELSE call.outcome]
  /\ UNCHANGED storeVars

\* The route's timer fires with the race pending: the race rejects and the
\* catch answers 200 with an empty array.
RequestTimeout ==
  /\ Polling
  /\ call.phase = "waiting"
  /\ call.race.state = "pending"
  /\ call.elapsed = requestTimeout
  /\ call' = [call EXCEPT !.race = reject(call.race, "OCI request timeout"),
                          !.res = [status |-> 200, body |-> <<>>],
                          !.outcome = "timeout"]
  /\ UNCHANGED storeVars

PollTick ==
  /\ Polling
  /\ call.phase = "waiting"
  /\ call.race.state = "pending"
  /\ call.elapsed < requestTimeout
  /\ call' = [call EXCEPT !.elapsed = call.elapsed + 1]
  /\ UNCHANGED storeVars

\* The response arrives: response.ok, and the dashboard takes its body.
setOCIAlerts ==
  /\ Polling
  /\ call.phase = "waiting"
  /\ call.res # NoResponse
  /\ call' = [call EXCEPT !.phase = "idle", !.cycle = call.cycle + 1,
                          !.ociAlerts = call.res.body]
  /\ UNCHANGED storeVars

\* The request fails on the way (no connection, or an answer that is not
\* ok): api.getOCIAlerts throws and the catch logs.
fetchThrows ==
  /\ Polling
  /\ call.phase = "waiting"
  /\ call' = [call EXCEPT !.phase = "idle", !.cycle = call.cycle + 1,
                          !.outcome = "request error"]
  /\ UNCHANGED storeVars

NextPoll ==
  \/ fetchOCIAlerts
  \/ getOCIAlertsReturns
  \/ getOCIAlertsFails
  \/ RequestTimeout
  \/ PollTick
  \/ setOCIAlerts
  \/ fetchThrows

SpecPoll == InitPoll /\ [][NextPoll]_vars

\* C21: when the cloud fetch fails entirely, or does not resolve before the
\* request timeout, the answer of the query endpoint is status 200 with an
\* empty array: no error and no substitute alert.
C21_FailedFetchAnswersEmpty ==
  (Polling /\ call.res # NoResponse /\ call.outcome \in {"failed", "timeout"})
     => (call.res.status = 200 /\ call.res.body = <<>>)

\* C22: a fetch cycle that failed (upstream outage, request timeout or
\* request error) leaves the dashboard with the alerts it showed before.
C22_FailedCycleKeepsSnapshot ==
  (Polling /\ call.phase = "idle"
     /\ call.outcome \in {"failed", "timeout", "request error"})
     => call.ociAlerts = call.before

\* ---------------------------------------------------------------------------
\* POST /graylog-alerts: the log-alert webhook and its memory list.

MaxAttachments == 2
MaxListed == 2

\* colorMap, as the pairs of its keys and values.
colorMap ==
  { <<"#FF0000", "critical">>, <<"#FFA500", "high">>, <<"#FFFF00", "medium">>,
    <<"#008000", "low">>, <<"#0000FF", "info">>, <<"#999999", "unknown">> }

\* colorMap[key]; Undefined for a key the object does not have.
colorMapAt(key) ==
  IF \E e \in colorMap : e[1] = key
  THEN Str((CHOOSE e \in colorMap : e[1] = key)[2])
  ELSE Undefined

\* A lookup with the attachment's color as it was sent.
severityOfExactColor(attachment) ==
  LET color == IF IsObject(attachment) THEN attachment.color ELSE Undefined
      found == IF color.t = "str" THEN colorMapAt(color.v) ELSE Undefined
  IN IF found # Undefined THEN found.v ELSE "unknown"

\* colorMap[attachment?.color?.toUpperCase()] || 'unknown'; "throws" stands
\* for the TypeError of calling toUpperCase on a value that has none.
severityOf(attachment) ==
  LET color == IF IsObject(attachment) THEN attachment.color ELSE Undefined
  IN IF color = Undefined \/ color = Null THEN "unknown"
     ELSE IF color.t # "str" THEN "throws"
     ELSE LET found == colorMapAt(ToUpperCase(color.v))
          IN IF found # Undefined THEN found.v ELSE "unknown"

\* The alert built from one attachment; attachment is kept beside the
\* fields to tell what the alert was made from.
graylogAlertOf(body, attachment) ==
  LET title == IF IsObject(attachment) THEN attachment.title ELSE ""
      color == IF IsObject(attachment) THEN attachment.color ELSE Undefined
  IN [ channel |-> Or(body.channel, "Unknown"),
       shortMessage |-> IF title # "" THEN title
                        ELSE Or(body.text, "No message provided"),
       severity |-> severityOf(attachment),
       color |-> IF Truthy(color) THEN color ELSE Str("#999999"),
       attachment |-> attachment ]

RECURSIVE mapAttachments(_, _)
mapAttachments(body, attachments) ==
  IF attachments = <<>> THEN <<>>
  ELSE <<graylogAlertOf(body, Head(attachments))>>
       \o mapAttachments(body, Tail(attachments))

AttachmentColors ==
  { Str("#FF0000"), Str("#ff0000"), Str("#FfA500"), Str("#ffff00"),
    Str("#008000"), Str("#0000fF"), Str("#123456"), Undefined,
    Num("16711680") }

Attachments ==
  { [color |-> c, title |-> "X"] : c \in AttachmentColors } \cup { Null }

\* req.body: isArray tells whether the attachments field is there and is an
\* array.
GraylogBodies ==
  { [channel |-> "ops", text |-> "", isArray |-> FALSE, attachments |-> <<>>] }
  \cup { [channel |-> "ops", text |-> "", isArray |-> TRUE, attachments |-> a] :
           a \in UNION {[1..n -> Attachments] : n \in 0..MaxAttachments} }

InitGraylog ==
  /\ StoreInit
  /\ call = [ fn |-> "graylogWebhook", alertsList |-> <<>>,
              status |-> 0, processed |-> 0 ]

GraylogWebhook == call.fn = "graylogWebhook"

\* router.post('/') of the log-alert route.
PostGraylog ==
  /\ GraylogWebhook
  /\ \E body \in GraylogBodies :
       IF ~body.isArray
       THEN call' = [call EXCEPT !.status = 400, !.processed = 0]
       ELSE LET newAlerts == mapAttachments(body, body.attachments)
            IN /\ Len(call.alertsList) + Len(body.attachments) <= MaxListed
               /\ IF \E i \in 1..Len(newAlerts) : newAlerts[i].severity = "throws"
                  THEN call' = [call EXCEPT !.status = 500, !.processed = 0]
                  ELSE call' = [call EXCEPT
                                  !.alertsList = newAlerts \o call.alertsList,
                                  !.status = 200,
                                  !.processed = Len(newAlerts)]
  /\ UNCHANGED storeVars

\* The daily reset of the log-alert list.
GraylogDailyReset ==
  /\ GraylogWebhook
  /\ call' = [call EXCEPT !.alertsList = <<>>, !.status = 0, !.processed = 0]
  /\ UNCHANGED storeVars

NextGraylog ==
  \/ PostGraylog
  \/ GraylogDailyReset

SpecGraylog == InitGraylog /\ [][NextGraylog]_vars

\* The severity the color table gives a color, letter case ignored.
TableSeverity(color) ==
  IF color.t = "str"
       /\ \E e \in colorMap : ToLowerCase(e[1]) = ToLowerCase(color.v)
  THEN (CHOOSE e \in colorMap : ToLowerCase(e[1]) = ToLowerCase(color.v))[2]
  ELSE "unknown"

C24_AcceptedAlertIsStored ==
  [][ Accepted =>
        \E i \in 1..Len(alertMemory') :
          /\ alertMemory'[i].dedupeKey = reply'.alertData.dedupeKey
          /\ alertMemory'[i].severity = reply'.alertData.severity
          /\ alertMemory'[i].timestamp = reply'.alertData.timestamp
    ]_vars

\* C26: every dedupeKey of the key-to-alert map is mapped to the alert the
\* collection holds under that key, with the same field values (the
\* timestamp among them), also after updates.
C26_MapHoldsStoredAlert ==
  \A K \in DOMAIN alertDedupeMap :
    \E i \in IndexesOf(alertMemory, K) :
      /\ alertMemory[i].severity = alertDedupeMap[K].severity
      /\ alertMemory[i].timestamp = alertDedupeMap[K].timestamp
      /\ alertMemory[i].id = alertDedupeMap[K].id

\* ---------------------------------------------------------------------------
\* The store's callbacks statement by statement on the event loop.  A
\* callback that has begun keeps the loop until it returns or awaits; the
\* webhook handler and the cron callbacks have no await.

MaxLoopArrivals == 2

LoopBodies ==
  { [wrapped |-> FALSE, fields |-> ("dedupeKey" :> Str("k1")) @@ ("severity" :> Str("warning"))],
    [wrapped |-> FALSE, fields |-> ("dedupeKey" :> Str("k2")) @@ ("timestamp" :> Str(ToISOString(0)))],
    [wrapped |-> FALSE, fields |-> ("dedupeKey" :> Str("k1")) @@ ("level" :> Num("7"))],
    [wrapped |-> FALSE, fields |-> ("type" :> Str("SubscriptionConfirmation"))] }

InitLoop ==
  /\ StoreInit
  /\ call = [ fn |-> "eventLoop", running |-> "none", pc |-> "idle", cron |-> "idle",
              webhookData |-> NoBody, alertData |-> NoAlert, isDuplicate |-> FALSE,
              pending |-> {} ]

Looping == call.fn = "eventLoop"

\* The loop can take a new callback.
LoopFree == Looping /\ call.running = "none"

\* The handler is at statement pc and has the loop, or waits for it.
HandlerAt(pc) ==
  /\ Looping
  /\ call.pc = pc
  /\ call.running \in {"post", "none"}

\* The cron callback is at statement pc and has the loop.
CronAt(pc) ==
  /\ Looping
  /\ call.cron = pc
  /\ call.running \in {"cron", "none"}

\* The request arrives and the handler begins: the confirmation branch, or
\* the raw payload is recorded.
ReceiveWebhook ==
  /\ LoopFree
  /\ call.pc = "idle"
  /\ arrivals < MaxLoopArrivals
  /\ arrivals' = arrivals + 1
  /\ \E body \in LoopBodies :
       IF IsSubscriptionConfirmation(body)
       THEN /\ rawWebhookMemory' =
                 <<[kind |-> "confirmation", at |-> now, n |-> arrivals + 1]>>
                   \o rawWebhookMemory
            /\ reply' = Reply("post", body, 200, "confirmation", NoAlert, NoAlert,
                              Len(alertMemory))
            /\ UNCHANGED call
       ELSE /\ rawWebhookMemory' =
                 PushRaw(rawWebhookMemory, [kind |-> "raw", at |-> now, n |-> arrivals + 1])
            /\ call' = [call EXCEPT !.running = "post", !.pc = "normalize",
                                    !.webhookData = body]
            /\ UNCHANGED reply
  /\ UNCHANGED <<alertMemory, dedupeKeys, alertDedupeMap, now>>

\* The fields are extracted and alertData is built; a severity that is not a
\* string throws and the catch answers 500.
BuildAlertData ==
  /\ HandlerAt("normalize")
  /\ LET payload == call.webhookData.fields IN
     IF RawSeverity(payload).t # "str"
     THEN /\ reply' = Reply("post", call.webhookData, 500, "error", NoAlert, NoAlert,
                            Len(alertMemory))
          /\ call' = [call EXCEPT !.running = "none", !.pc = "idle"]
     ELSE /\ call' = [call EXCEPT !.running = "post", !.pc = "check",
                        !.alertData = Normalize(payload, now, arrivals)]
          /\ UNCHANGED reply
  /\ UNCHANGED <<alertMemory, rawWebhookMemory, dedupeKeys, alertDedupeMap, now, arrivals>>

\* A duplicate check followed by an await: the loop is given up before the
\* store is changed.
DuplicateCheckAwaits ==
  /\ HandlerAt("check")
  /\ LET dup == Truthy(call.alertData.dedupeKey)
                  /\ isDuplicateAlert(dedupeKeys, call.alertData.dedupeKey)
     IN call' = [call EXCEPT !.running = "none", !.isDuplicate = dup,
                             !.pc = IF dup THEN "update" ELSE "unshift"]
  /\ UNCHANGED storeVars

\* if (dedupeKey && isDuplicateAlert(dedupeKey))
DuplicateCheck ==
  /\ HandlerAt("check")
  /\ LET dup == Truthy(call.alertData.dedupeKey)
                  /\ isDuplicateAlert(dedupeKeys, call.alertData.dedupeKey)
     IN call' = [call EXCEPT !.running = "post", !.isDuplicate = dup,
                             !.pc = IF dup THEN "update" ELSE "unshift"]
  /\ UNCHANGED storeVars

\* updateExistingAlert(dedupeKey, alertData)
UpdateStep ==
  /\ HandlerAt("update")
  /\ alertMemory' = updateExistingAlert(alertMemory, call.alertData.dedupeKey,
                                        call.alertData, now)
  /\ call' = [call EXCEPT !.running = "post", !.pc = "respond"]
  /\ UNCHANGED <<rawWebhookMemory, dedupeKeys, alertDedupeMap, now, arrivals, reply>>

\* addNewAlert: alertMemory.unshift(alertData)
UnshiftStep ==
  /\ HandlerAt("unshift")
  /\ alertMemory' = <<call.alertData>> \o alertMemory
  /\ call' = [call EXCEPT !.running = "post", !.pc = "track"]
  /\ UNCHANGED <<rawWebhookMemory, dedupeKeys, alertDedupeMap, now, arrivals, reply>>

\* addNewAlert: the key is added to the set and the map.
TrackStep ==
  /\ HandlerAt("track")
  /\ IF Truthy(call.alertData.dedupeKey)
     THEN /\ dedupeKeys' = dedupeKeys \cup {call.alertData.dedupeKey}
          /\ alertDedupeMap' = MapSet(alertDedupeMap, call.alertData.dedupeKey,
                                      call.alertData)
     ELSE UNCHANGED <<dedupeKeys, alertDedupeMap>>
  /\ call' = [call EXCEPT !.running = "post", !.pc = "trim"]
  /\ UNCHANGED <<alertMemory, rawWebhookMemory, now, arrivals, reply>>

\* addNewAlert: the oldest alert is popped from a collection over capacity
\* and its key is dropped.
TrimStep ==
  /\ HandlerAt("trim")
  /\ IF Len(alertMemory) > MAX_ALERTS
     THEN LET removedAlert == alertMemory[Len(alertMemory)] IN
          /\ alertMemory' = SubSeq(alertMemory, 1, Len(alertMemory) - 1)
          /\ IF Truthy(removedAlert.dedupeKey)
             THEN /\ dedupeKeys' = dedupeKeys \ {removedAlert.dedupeKey}
                  /\ alertDedupeMap' = MapDelete(alertDedupeMap, removedAlert.dedupeKey)
             ELSE UNCHANGED <<dedupeKeys, alertDedupeMap>>
     ELSE UNCHANGED <<alertMemory, dedupeKeys, alertDedupeMap>>
  /\ call' = [call EXCEPT !.running = "post", !.pc = "respond"]
  /\ UNCHANGED <<rawWebhookMemory, now, arrivals, reply>>

\* res.status(200).json(...): the handler returns.
RespondStep ==
  /\ HandlerAt("respond")
  /\ reply' = Reply("post", call.webhookData, 200,
                    IF call.isDuplicate THEN "updated" ELSE "new",
                    call.alertData, NoAlert, Len(alertMemory))
  /\ call' = [call EXCEPT !.running = "none", !.pc = "idle"]
  /\ UNCHANGED <<alertMemory, rawWebhookMemory, dedupeKeys, alertDedupeMap, now, arrivals>>

\* The daily reset begins: alertMemory.length = 0
ResetAlerts ==
  /\ LoopFree
  /\ call.cron = "idle"
  /\ alertMemory' = <<>>
  /\ call' = [call EXCEPT !.running = "cron", !.cron = "reset raw"]
  /\ UNCHANGED <<rawWebhookMemory, dedupeKeys, alertDedupeMap, now, arrivals, reply>>

\* rawWebhookMemory.length = 0
ResetRaw ==
  /\ CronAt("reset raw")
  /\ rawWebhookMemory' = <<>>
  /\ call' = [call EXCEPT !.running = "cron", !.cron = "reset keys"]
  /\ UNCHANGED <<alertMemory, dedupeKeys, alertDedupeMap, now, arrivals, reply>>

\* dedupeKeys.clear()
ResetKeys ==
  /\ CronAt("reset keys")
  /\ dedupeKeys' = {}
  /\ call' = [call EXCEPT !.running = "cron", !.cron = "reset map"]
  /\ UNCHANGED <<alertMemory, rawWebhookMemory, alertDedupeMap, now, arrivals, reply>>

\* alertDedupeMap.clear(), and the callback returns.
ResetMap ==
  /\ CronAt("reset map")
  /\ alertDedupeMap' = EmptyMap
  /\ reply' = Quiet("reset", 0)
  /\ call' = [call EXCEPT !.running = "none", !.cron = "idle"]
  /\ UNCHANGED <<alertMemory, rawWebhookMemory, dedupeKeys, now, arrivals>>

\* The periodic cleanup begins to iterate over the entries of the map.
CleanupBegin ==
  /\ LoopFree
  /\ call.cron = "idle"
  /\ call' = [call EXCEPT !.running = "cron", !.cron = "cleanup",
                          !.pending = DOMAIN alertDedupeMap]
  /\ UNCHANGED storeVars

\* One entry of the iteration: a stale key leaves the set; when no entry is
\* left the callback returns.
CleanupEntry ==
  /\ CronAt("cleanup")
  /\ IF call.pending = {}
     THEN /\ call' = [call EXCEPT !.running = "none", !.cron = "idle"]
          /\ reply' = Quiet("cleanup", 0)
          /\ UNCHANGED dedupeKeys
     ELSE \E K \in call.pending :
            /\ UNCHANGED reply
            /\ IF K \in DOMAIN alertDedupeMap /\ IsStale(alertDedupeMap[K], now)
               THEN /\ dedupeKeys' = dedupeKeys \ {K}
                    /\ call' = [call EXCEPT !.running = "cron", !.cron = "cleanup map",
                                            !.pending = {K}
                                               \cup (call.pending \ {K})]
               ELSE /\ UNCHANGED dedupeKeys
                    /\ call' = [call EXCEPT !.running = "cron",
                                            !.pending = call.pending \ {K}]
  /\ UNCHANGED <<alertMemory, rawWebhookMemory, alertDedupeMap, now, arrivals>>

\* alertDedupeMap.delete(dedupeKey) for the stale key just dropped from the
\* set.
CleanupMapDelete ==
  /\ CronAt("cleanup map")
  /\ \E K \in call.pending :
       /\ K \notin dedupeKeys
       /\ K \in DOMAIN alertDedupeMap
       /\ IsStale(alertDedupeMap[K], now)
       /\ alertDedupeMap' = MapDelete(alertDedupeMap, K)
       /\ call' = [call EXCEPT !.running = "cron", !.cron = "cleanup",
                               !.pending = call.pending \ {K}]
  /\ UNCHANGED <<alertMemory, rawWebhookMemory, dedupeKeys, now, arrivals, reply>>

\* Time passes between callbacks.
LoopTick ==
  /\ LoopFree
  /\ now < MaxTime
  /\ now' = now + 1
  /\ UNCHANGED <<alertMemory, rawWebhookMemory, dedupeKeys, alertDedupeMap, arrivals,
                 reply, call>>

NextLoop ==
  \/ ReceiveWebhook
  \/ BuildAlertData
  \/ DuplicateCheck
  \/ UpdateStep
  \/ UnshiftStep
  \/ TrackStep
  \/ TrimStep
  \/ RespondStep
  \/ ResetAlerts
  \/ ResetRaw
  \/ ResetKeys
  \/ ResetMap
  \/ CleanupBegin
  \/ CleanupEntry
  \/ CleanupMapDelete
  \/ LoopTick

SpecLoop == InitLoop /\ [][NextLoop]_vars

\* The handler is between its duplicate check and the end of its insert,
\* update or eviction.
MidMutation == Looping /\ call.pc \in {"update", "unshift", "track", "trim"}

\* A wipe or a pruning has begun and not ended.
MidCron == Looping /\ call.cron # "idle"

\* C25: store mutations and scheduler callbacks are atomic with respect to
\* each other: no wipe or pruning step is taken between a webhook's duplicate
\* check and its insert, update or eviction, no webhook step is taken in the
\* middle of a wipe or pruning, and whenever a callback begins neither a
\* webhook mutation nor a wipe is half done.
C25_CallbacksAtomic ==
  /\ [][ MidMutation => call'.cron = "idle" ]_vars
  /\ [][ MidCron => call'.pc = "idle" ]_vars
  /\ [](LoopFree => (call.pc = "idle" /\ call.cron = "idle"))

\* The handler of the second arrival has put its alert into the collection
\* and not yet registered its key, and a wipe has run to its end between
\* the two arrivals.
C25_Witness ==
  /\ Looping
  /\ call.pc = "track"
  /\ Len(alertMemory) = 1
  /\ Truthy(call.alertData.dedupeKey)
  /\ call.alertData.dedupeKey \notin dedupeKeys
  /\ arrivals = 2
  /\ Len(rawWebhookMemory) = 1

\* ---------------------------------------------------------------------------
\* getOCIAlerts: the alarms of one run are enriched in chunks.

MaxAlarms == 3
BatchSizeBound == 2

\* batchSize (10), scaled.
batchSize == BatchSizeBound

CompartmentIds == {"c1", "c2"}

\* identityClient.getCompartment(id).compartment.name when the call succeeds.
compartmentNameOf(compartmentId) == "tenant-" \o compartmentId

\* An alarm: bad tells what fails in its processing: "vm" makes extractVmInfo
\* throw (a query that is not a string), "severity" makes the building of
\* the alert throw (no severity), "no" lets it through.
AlarmSamples ==
  { [compartmentId |-> "c1", bad |-> "no"],
    [compartmentId |-> "c2", bad |-> "no"],
    [compartmentId |-> "c1", bad |-> "severity"],
    [compartmentId |-> "c2", bad |-> "vm"] }

AlarmLists == UNION {[1..n -> AlarmSamples] : n \in 0..MaxAlarms}

EmptyCache == [k \in {} |-> ""]

\* Map.prototype.set
CacheSet(cache, k, v) == (k :> v) @@ cache

\* The positions of chunk number b (from 1) of n alarms.
Chunk(b, n) == {i \in 1..n : (i - 1) \div batchSize = b - 1}

\* The number of chunks of n alarms.
Chunks(n) == (n + batchSize - 1) \div batchSize

\* The state after alarmsResponse has arrived; compartmentNameCache is the
\* module's cache, which earlier runs may have filled.
InitBatch ==
  /\ StoreInit
  /\ \E alarms \in AlarmLists, known \in SUBSET {"c1"} :
       call = [ fn |-> "getOCIAlerts", alarms |-> alarms, phase |-> "listed",
                batchIndex |-> 0,
                task |-> [i \in 1..Len(alarms) |-> "unstarted"],
                tenant |-> [i \in 1..Len(alarms) |-> ""],
                compartmentCache |-> EmptyCache,
                compartmentNameCache |->
                   [k \in known |-> compartmentNameOf(k)],
                lookups |-> [k \in CompartmentIds |-> 0],
                alerts |-> <<>> ]

Enriching == call.fn = "getOCIAlerts"

Settled(pc) == pc \in {"alert", "null"}

\* batch.map(async ...): every callback of the chunk runs up to its first
\* await, the one of extractVmInfo.
StartedTasks(b) ==
  [i \in 1..Len(call.alarms) |->
     IF i \in Chunk(b, Len(call.alarms)) THEN "vm" ELSE call.task[i]]

\* batchResults.forEach: the alarms of chunk b that gave an alert, in order.
RECURSIVE Successful(_, _, _)
Successful(task, tenant, positions) ==
  IF positions = {} THEN <<>>
  ELSE LET i == CHOOSE x \in positions : \A y \in positions : x <= y
       IN (IF task[i] = "alert" THEN <<[alarm |-> i, tenant |-> tenant[i]]>> ELSE <<>>)
          \o Successful(task, tenant, positions \ {i})

\* The chunks are cut and the first one is started; with no alarm the run
\* returns at once.
BeginProcessing ==
  /\ Enriching
  /\ call.phase = "listed"
  /\ call' = IF Len(call.alarms) = 0
             THEN [call EXCEPT !.phase = "returned"]
             ELSE [call EXCEPT !.phase = "processing", !.batchIndex = 1,
                               !.task = StartedTasks(1)]
  /\ UNCHANGED storeVars

\* The continuation of a callback after extractVmInfo: the catch, the local
\* cache, or getCompartmentName up to its return from the module cache or
\* its call of the identity service.  Continuations run in the order of the
\* callbacks.
AfterVm ==
  /\ Enriching
  /\ \E i \in 1..Len(call.alarms) :
       /\ call.task[i] = "vm"
       /\ \A j \in 1..(i - 1) : call.task[j] # "vm"
       /\ LET alarm == call.alarms[i]
              id == alarm.compartmentId
          IN IF alarm.bad = "vm"
             THEN call' = [call EXCEPT !.task[i] = "null"]
             ELSE IF id \in DOMAIN call.compartmentCache
             THEN call' = [call EXCEPT
                             !.tenant[i] = call.compartmentCache[id],
                             !.task[i] = IF alarm.bad = "severity" THEN "null" ELSE "alert"]
             ELSE IF id \in DOMAIN call.compartmentNameCache
             THEN call' = [call EXCEPT
                             !.tenant[i] = call.compartmentNameCache[id],
                             !.task[i] = "cached"]
             ELSE call' = [call EXCEPT
                             !.lookups[id] = call.lookups[id] + 1,
                             !.task[i] = "network"]
  /\ UNCHANGED storeVars

\* The name came from the module cache: the callback goes on after its
\* await, once the continuations queued before it have run.
AfterCached ==
  /\ Enriching
  /\ \A j \in 1..Len(call.alarms) : call.task[j] # "vm"
  /\ \E i \in 1..Len(call.alarms) :
       /\ call.task[i] = "cached"
       /\ \A j \in 1..(i - 1) : call.task[j] # "cached"
       /\ call' = [call EXCEPT
                     !.compartmentCache =
                        CacheSet(call.compartmentCache, call.alarms[i].compartmentId,
                                 call.tenant[i]),
                     !.task[i] = IF call.alarms[i].bad = "severity"
                                 THEN "null" ELSE "alert"]
  /\ UNCHANGED storeVars

\* The identity service answers one lookup: the name is cached by
\* getCompartmentName and by the callback.  Answers come when no
\* continuation is waiting to run.  (A name that stands for a managed
\* compartment adds a lookup of the parent's id, which is not counted here.)
LookupReturns ==
  /\ Enriching
  /\ \A j \in 1..Len(call.alarms) : call.task[j] \notin {"vm", "cached"}
  /\ \E i \in 1..Len(call.alarms) :
       /\ call.task[i] = "network"
       /\ LET id == call.alarms[i].compartmentId
              name == compartmentNameOf(id)
          IN call' = [call EXCEPT
                        !.compartmentNameCache = CacheSet(call.compartmentNameCache, id, name),
                        !.compartmentCache = CacheSet(call.compartmentCache, id, name),
                        !.tenant[i] = name,
                        !.task[i] = IF call.alarms[i].bad = "severity"
                                    THEN "null" ELSE "alert"]
  /\ UNCHANGED storeVars

\* The lookup fails: getCompartmentName returns 'Unknown Tenant', which only
\* the callback caches.
LookupFails ==
  /\ Enriching
  /\ \A j \in 1..Len(call.alarms) : call.task[j] \notin {"vm", "cached"}
  /\ \E i \in 1..Len(call.alarms) :
       /\ call.task[i] = "network"
       /\ call' = [call EXCEPT
                     !.compartmentCache =
                        CacheSet(call.compartmentCache, call.alarms[i].compartmentId,
                                 "Unknown Tenant"),
                     !.tenant[i] = "Unknown Tenant",
                     !.task[i] = IF call.alarms[i].bad = "severity"
                                 THEN "null" ELSE "alert"]
  /\ UNCHANGED storeVars

\* A loop that goes on as soon as one callback of the chunk has settled.
ChunkCompletesOnFirst ==
  /\ Enriching
  /\ call.phase = "processing"
  /\ LET n == Len(call.alarms)
         b == call.batchIndex
     IN /\ \E i \in Chunk(b, n) : Settled(call.task[i])
        /\ call' = [call EXCEPT
                      !.alerts = call.alerts \o Successful(call.task, call.tenant, Chunk(b, n)),
                      !.batchIndex = IF b < Chunks(n) THEN b + 1 ELSE b,
                      !.phase = IF b < Chunks(n) THEN "processing" ELSE "returned",
                      !.task = IF b < Chunks(n) THEN StartedTasks(b + 1) ELSE call.task]
  /\ UNCHANGED storeVars

\* await Promise.all(batchPromises) resumes: the results are pushed, and the
\* loop starts the next chunk or the run returns.
ChunkCompletes ==
  /\ Enriching
  /\ call.phase = "processing"
  /\ LET n == Len(call.alarms)
         b == call.batchIndex
     IN /\ \A i \in Chunk(b, n) : Settled(call.task[i])
        /\ call' = [call EXCEPT
                      !.alerts = call.alerts \o Successful(call.task, call.tenant, Chunk(b, n)),
                      !.batchIndex = IF b < Chunks(n) THEN b + 1 ELSE b,
                      !.phase = IF b < Chunks(n) THEN "processing" ELSE "returned",
                      !.task = IF b < Chunks(n) THEN StartedTasks(b + 1) ELSE call.task]
  /\ UNCHANGED storeVars

NextBatch ==
  \/ BeginProcessing
  \/ AfterVm
  \/ AfterCached
  \/ LookupReturns
  \/ LookupFails
  \/ ChunkCompletes

SpecBatch == InitBatch /\ [][NextBatch]_vars

\* C27: within one run, at most one network lookup is issued per compartment
\* id.
C27_OneLookupPerCompartment ==
  Enriching => \A id \in CompartmentIds : call.lookups[id] <= 1

\* The callbacks that have begun and not settled.
InProgress == {i \in 1..Len(call.alarms) : call.task[i] \notin {"unstarted", "alert", "null"}}

ChunkOf(i) == ((i - 1) \div batchSize) + 1

\* C28: at most one chunk of batchSize alarms is in progress at any time, a
\* chunk is started only when every alarm of the chunks before it has
\* completed or failed, and the run returns the alerts of the successfully
\* processed alarms in input order.
C28_ChunksInSequence ==
  Enriching =>
    /\ Cardinality(InProgress) <= batchSize
    /\ \A i, j \in InProgress : ChunkOf(i) = ChunkOf(j)
    /\ \A i, j \in 1..Len(call.alarms) :
         (ChunkOf(j) < ChunkOf(i) /\ call.task[i] # "unstarted") => Settled(call.task[j])
    /\ call.phase = "returned" =>
         /\ \A i \in 1..Len(call.alarms) : Settled(call.task[i])
         /\ call.alerts =
              Successful(call.task, call.tenant, 1..Len(call.alarms))
         /\ \A i \in 1..Len(call.alarms) :
              call.task[i] = "alert" <=> call.alarms[i].bad = "no"

\* A run of three alarms in two chunks has returned: the second alarm
\* failed, the first and the third are in the output in this order.
C28_Witness ==
  /\ Enriching
  /\ call.phase = "returned"
  /\ Len(call.alarms) = 3
  /\ call.batchIndex = 2
  /\ call.task[2] = "null"
  /\ Len(call.alerts) = 2
  /\ call.alerts[1].alarm = 1 /\ call.alerts[2].alarm = 3

\* ---------------------------------------------------------------------------
\* One alert body sent flat and sent wrapped as {payload: body}.

\* The outer object of a wrapped webhook: its only field is payload, an
\* object; the fields of body are not fields of the outer object.
Wrap(body) == Field("payload", [t |-> "obj", v |-> ""])

InitWrap ==
  /\ StoreInit
  /\ call \in [fn : {"classifyWebhook"}, body : ClassifyBodies,
               flat : {"none"}, wrapped : {"none"}]

\* The body arrives flat: webhookData is the body.
PostFlat ==
  /\ call.fn = "classifyWebhook"
  /\ call.flat = "none"
  /\ call' = [call EXCEPT !.flat = determineAlertType(call.body)]
  /\ UNCHANGED storeVars

\* The body arrives wrapped: webhookData is {payload: body}; the
\* classification is computed on webhookData before payload is unwrapped.
PostWrapped ==
  /\ call.fn = "classifyWebhook"
  /\ call.wrapped = "none"
  /\ call' = [call EXCEPT !.wrapped = determineAlertType(Wrap(call.body))]
  /\ UNCHANGED storeVars

NextWrap ==
  \/ PostFlat
  \/ PostWrapped

SpecWrap == InitWrap /\ [][NextWrap]_vars

\* C29: a body sent flat and the same body sent wrapped as {payload: body}
\* receive the same server/database classification.
C29_WrappingKeepsClassification ==
  (call.fn = "classifyWebhook" /\ call.flat # "none" /\ call.wrapped # "none")
     => call.flat = call.wrapped

\* ---------------------------------------------------------------------------
\* processAlerts with the dynamic filter alone, on raw alerts that may share
\* a timestamp.

MaxDynamic == 2

DynamicOciSamples ==
  { [ _id |-> "", severity |-> "critical", message |-> "cpu high", vm |-> "web-01",
      tenant |-> "acme", region |-> "us-1", alertType |-> "OCI_ALARM",
      metricName |-> "CpuUtilization", timestamp |-> ToISOString(1) ],
    [ _id |-> "", severity |-> "warning", message |-> "memory high", vm |-> "app-02",
      tenant |-> "globex", region |-> "us-1", alertType |-> "OCI_ALARM",
      metricName |-> "MemoryUtilization", timestamp |-> ToISOString(1) ],
    [ _id |-> "", severity |-> "warning", message |-> "disk", vm |-> "web-02",
      tenant |-> "acme", region |-> "us-1", alertType |-> "OCI_ALARM",
      metricName |-> "DiskUtilization", timestamp |-> ToISOString(0) ] }

DynamicOciLists == UNION {[1..n -> DynamicOciSamples] : n \in 0..MaxDynamic}

\* Two attachments of one log webhook carry the timestamp of the request.
DynamicGraylogLists ==
  LET g1 == [ _id |-> "", channel |-> "#alerts", shortMessage |-> "login failed",
              fullMessage |-> "", severity |-> "critical", timestamp |-> ToISOString(1) ]
      g2 == [ _id |-> "", channel |-> "#ops", shortMessage |-> "restart",
              fullMessage |-> "", severity |-> "error", timestamp |-> ToISOString(1) ]
      g3 == [ _id |-> "", channel |-> "#ops", shortMessage |-> "disk error on WEB-01",
              fullMessage |-> "", severity |-> "error", timestamp |-> ToISOString(0) ]
  IN {<<>>, <<g1>>, <<g1, g2>>, <<g2, g1>>, <<g3>>}

DynamicValues == {"#alerts", "acme", "globex", "web"}

\* The filters of the dashboard with only the dynamic filter set.
DynamicOnly(filterValue) ==
  [ source |-> <<Logs, Infra>>, severity |-> <<>>, channel |-> <<>>,
    dynamicFilter |-> filterValue, region |-> "ALL", resourceType |-> "",
    searchText |-> "" ]

InitDynamic ==
  /\ StoreInit
  /\ call \in [fn : {"processAlerts"}, graylogAlerts : DynamicGraylogLists,
               ociAlerts : DynamicOciLists, heartbeatAlerts : {<<>>},
               filters : {DynamicOnly(v) : v \in DynamicValues}, done : {FALSE},
               unsorted : {<<>>}, result : {<<>>}]

NextDynamic == CallProcessAlerts

SpecDynamic == InitDynamic /\ [][NextDynamic]_vars

\* The output has the record with this id.
KeptId(id) == \E k \in 1..Len(call.result) : call.result[k].id = id

\* The raw infrastructure alert matches the value: its tenant exactly, or its
\* VM by substring, letter case ignored.
OciMatches(ociAlert, filterValue) ==
  \/ ToLowerCase(ociAlert.tenant) = ToLowerCase(filterValue)
  \/ Includes(ToLowerCase(ociAlert.vm), ToLowerCase(filterValue))

\* The raw log alert matches the value: its channel, letter case ignored.
ChannelMatches(graylogAlert, filterValue) ==
  ToLowerCase(graylogAlert.channel) = ToLowerCase(filterValue)

\* C30: with a dynamic filter value set, a log or infrastructure record is
\* kept exactly when its own raw alert matches the value, whatever other
\* alerts are in the input, alerts with the same timestamp included.
C30_OwnRawAlertDecides ==
  (call.fn = "processAlerts" /\ call.done /\ call.filters.dynamicFilter \in DynamicValues
     /\ call.filters = DynamicOnly(call.filters.dynamicFilter))
  =>
    /\ \A i \in 1..Len(call.ociAlerts) :
         KeptId(processOci(call.ociAlerts[i], i - 1).id)
           <=> OciMatches(call.ociAlerts[i], call.filters.dynamicFilter)
    /\ \A i \in 1..Len(call.graylogAlerts) :
         KeptId(processGraylog(call.graylogAlerts[i], i - 1).id)
           <=> ChannelMatches(call.graylogAlerts[i], call.filters.dynamicFilter)
====
